---------------------------- MODULE Spec2Model ----------------------------
(***************************************************************************)
(* A model of RadixEngine<T> (packages/core/src/router/radix-node.ts): the *)
(* arena of nodes, the shared transitions pool, the instruction stream of  *)
(* the param-edge programs, the template compiler (insert), tombstone      *)
(* delete, finalize and the search VM (searchInto / _execInstr).           *)
(*                                                                         *)
(* Conventions.  Strings are sequences of character codes; index k of the  *)
(* source (0-based) is element k+1 of the sequence.  The arrays nodes,     *)
(* values and instr keep their reserved element 0 as element 1 of the      *)
(* sequence.  The transitions pool, a zero-filled Uint32Array, is kept as   *)
(* the function of its non-zero slots together with its capacity.          *)
(***************************************************************************)
EXTENDS Integers, Sequences, FiniteSets, TLC

VARIABLES nodes, transitionsPool, transitionsCapNodes, values, instr,
          literalPool, paramKeyPool, routeTemplateToNode, frozen, delim,
          assumeAscii, execCursor, execCap, memoryPool, out, trace, last, nops,
          readers, machine, cache, history

vars == <<nodes, transitionsPool, transitionsCapNodes, values, instr,
          literalPool, paramKeyPool, routeTemplateToNode, frozen, delim,
          assumeAscii, execCursor, execCap, memoryPool, out, trace, last, nops,
          readers, machine, cache, history>>

---------------------------------------------------------------------------
(* Program constants *)

TERMINAL == 1
HAS_PARAM_EDGE == 2
HAS_WILDCARD_EDGE == 4

OP_MATCH_LITERAL == 1
OP_MATCH_LITERAL_SEQ == 2
OP_CAPTURE_UNTIL == 3
OP_END == 5

ASCII_SLASH == 47
ASCII_LBRACE == 123
ASCII_RBRACE == 125
ASCII_BACKSLASH == 92
ASCII_STAR == 42
ASCII_DOT == 46

MAX_PARAM_EDGES_PER_NODE == 4
TRANSITIONS_WIDTH == 128
DefaultNodePoolSize == 16

(* An optional field of the result struct (value?: T, nodeIndex?: number,  *)
(* ...) is the empty sequence when undefined and <<v>> when set to v; the  *)
(* reserved element of the values arena is undefined too.                  *)
Undefined == <<>>
Some(v) == <<v>>

(* routeTemplateToNode is a Map or null: [dropped, map] *)
EmptyMap == [dropped |-> FALSE, map |-> <<>>]
NullMap == [dropped |-> TRUE, map |-> <<>>]

---------------------------------------------------------------------------
(* Characters and bit operations *)

Ord ==
  ("/" :> 47) @@ ("." :> 46) @@ ("*" :> 42) @@ ("{" :> 123) @@ ("}" :> 125) @@
  ("\\" :> 92) @@ ("a" :> 97) @@ ("b" :> 98) @@ ("c" :> 99) @@ ("e" :> 101) @@
  ("i" :> 105) @@ ("n" :> 110) @@ ("p" :> 112) @@ ("q" :> 113) @@ ("u" :> 117) @@
  ("x" :> 120) @@ ("y" :> 121) @@ ("z" :> 122) @@ ("1" :> 49) @@ ("2" :> 50) @@
  ("-" :> 45) @@ (":" :> 58) @@ ("|" :> 124) @@ ("A" :> 65) @@ ("A'" :> 225)

Str(s) == [k \in 1..Len(s) |-> Ord[s[k]]]

(* cc & 0x7f *)
Low7(cc) == cc % 128

(* (flags & bit) !== 0, for a single-bit mask *)
HasFlag(flags, bit) == (flags \div bit) % 2 = 1

(* flags |= bit *)
SetFlag(flags, bit) == IF HasFlag(flags, bit) THEN flags ELSE flags + bit

(* flags &= ~bit *)
ClearFlag(flags, bit) == IF HasFlag(flags, bit) THEN flags - bit ELSE flags

(* template.charCodeAt(i) for i < length *)
CharAt(s, i) == s[i + 1]

(* s.slice(from, to) *)
Slice(s, from, to) == [k \in 1..(to - from) |-> s[from + k]]

---------------------------------------------------------------------------
(* The engine as one record, so that the operations are functions from     *)
(* engines to engines.                                                      *)

Engine ==
  [nodes |-> nodes, transitionsPool |-> transitionsPool,
   transitionsCapNodes |-> transitionsCapNodes, values |-> values,
   instr |-> instr, literalPool |-> literalPool, paramKeyPool |-> paramKeyPool,
   routeTemplateToNode |-> routeTemplateToNode, frozen |-> frozen,
   delim |-> delim, assumeAscii |-> assumeAscii,
   execCursor |-> execCursor, execCap |-> execCap]

NewNodeRecord(transBase) ==
  [transBase |-> transBase, valueIndex |-> 0, paramCount |-> 0,
   paramKeysIndex |-> 0, flags |-> 0, paramEdgeCount |-> 0,
   paramChild |-> <<0, 0, 0, 0>>, paramInstr |-> <<0, 0, 0, 0>>,
   wildcardChild |-> 0]

(* this.routeTemplateToNode !== null, this.routeTemplateToNode.has(t) *)
HasInternMap(E) == ~E.routeTemplateToNode.dropped
Interned(E, t) == t \in DOMAIN E.routeTemplateToNode.map

(* this.nodes[k] *)
NodeAt(E, k) == E.nodes[k + 1]

(* this.nodes.length *)
NodeCount(E) == Len(E.nodes)

(* node.getParamChild(slot), node.getParamInstr(slot) *)
getParamChild(n, slot) == IF slot \in 0..3 THEN n.paramChild[slot + 1] ELSE 0
getParamInstr(n, slot) == IF slot \in 0..3 THEN n.paramInstr[slot + 1] ELSE 0

(* node.setParamEdge(slot, instr, child) *)
setParamEdge(n, slot, instrStart, child) ==
  IF slot \in 0..3
    THEN [n EXCEPT !.paramInstr[slot + 1] = instrStart,
                   !.paramChild[slot + 1] = child]
    ELSE n

(* this.transitionsPool[slot] | 0 : a slot never written reads 0 *)
TransAt(E, slot) ==
  IF slot \in DOMAIN E.transitionsPool THEN E.transitionsPool[slot] ELSE 0

(* this.instr[k] | 0 : a word never written reads 0 *)
InstrAt(E, k) == IF k + 1 \in 1..Len(E.instr) THEN E.instr[k + 1] ELSE 0

(* this.instrLen *)
InstrLen(E) == Len(E.instr)

OpOf(w) == w % 256
OperandOf(w) == w \div 256

RECURSIVE GrowCap(_, _)
GrowCap(cap, required) ==
  IF cap <= required THEN GrowCap(cap * 2, required) ELSE cap

(* this.transitionsPool.length *)
TransitionsLength(E) == E.transitionsCapNodes * TRANSITIONS_WIDTH

(* next.set(this.transitionsPool) on a new zeroed buffer: the slots of the *)
(* old buffer, which are those below its length, with their contents       *)
copyTransitions(pool, oldLength) ==
  [s \in {k \in DOMAIN pool : k < oldLength} |-> pool[s]]

(* A growth that allocates the new buffer and copies nothing *)
ensureTransitionsNoCopy(E, requiredNodeCount) ==
  IF requiredNodeCount < E.transitionsCapNodes
    THEN E
    ELSE [E EXCEPT !.transitionsCapNodes = GrowCap(@, requiredNodeCount),
                   !.transitionsPool = <<>>]

ensureTransitionsForNodeCount(E, requiredNodeCount) ==
  IF requiredNodeCount < E.transitionsCapNodes
    THEN E
    ELSE [E EXCEPT !.transitionsCapNodes = GrowCap(@, requiredNodeCount),
                   !.transitionsPool =
                     copyTransitions(E.transitionsPool, TransitionsLength(E))]

(* this.transitionsPool[slot] = v : a typed array drops a write at an      *)
(* index that is not below its length                                      *)
setTransition(E, slot, v) ==
  IF slot < TransitionsLength(E)
    THEN [E EXCEPT !.transitionsPool = (slot :> v) @@ @]
    ELSE E

(* _newNode: returns the engine with the node appended; the new index is   *)
(* the node count of the engine it was given.                              *)
newNode(E) ==
  LET newIndex == NodeCount(E)
      E1 == ensureTransitionsForNodeCount(E, newIndex + 1)
  IN [E1 EXCEPT !.nodes = Append(@, NewNodeRecord(newIndex * TRANSITIONS_WIDTH))]

(* _newValue *)
newValue(E, v) == [E EXCEPT !.values = Append(@, v)]

emitMatchLiteral(E, ch) ==
  [E EXCEPT !.instr = Append(@, OP_MATCH_LITERAL + (ch % 256) * 256)]

emitMatchLiteralSeq(E, off, len) ==
  [E EXCEPT !.instr = Append(Append(@, OP_MATCH_LITERAL_SEQ + (len % 65536) * 256), off)]

emitCaptureUntil(E, stopChar, captureIndex) ==
  [E EXCEPT !.instr = Append(Append(@, OP_CAPTURE_UNTIL + (stopChar % 256) * 256),
                             captureIndex)]

emitEnd(E) == [E EXCEPT !.instr = Append(@, OP_END)]

---------------------------------------------------------------------------
(* Param-edge installation with the program identity check *)

RECURSIVE instrEqual(_, _, _)
instrEqual(E, a, b) ==
  LET wa == InstrAt(E, a)
      wb == InstrAt(E, b)
      opa == OpOf(wa)
      opb == OpOf(wb)
  IN IF opa # opb THEN FALSE
     ELSE IF opa = OP_MATCH_LITERAL \/ opa = OP_CAPTURE_UNTIL
       THEN IF OperandOf(wa) # OperandOf(wb) THEN FALSE
            ELSE instrEqual(E, a + 2, b + 2)
     ELSE IF opa = OP_MATCH_LITERAL_SEQ
       THEN IF OperandOf(wa) # OperandOf(wb) THEN FALSE
            ELSE IF InstrAt(E, a + 1) # InstrAt(E, b + 1) THEN FALSE
            ELSE instrEqual(E, a + 2, b + 2)
     ELSE opa = OP_END

(* The slots 0..ec-1 of a node whose program equals the one at instrStart *)
EqualSlots(E, n, instrStart) ==
  {s \in 0..(n.paramEdgeCount - 1) : instrEqual(E, getParamInstr(n, s), instrStart)}

Min(S) == CHOOSE x \in S : \A y \in S : x <= y

(* An install whose first edge sets the flag and the slot but not the      *)
(* count                                                                   *)
installParamEdgeVariantNoCount(E, startIndex, instrStart, destNode) ==
  LET startNode == NodeAt(E, startIndex)
      ec == startNode.paramEdgeCount
      same == EqualSlots(E, startNode, instrStart)
  IN IF ~HasFlag(startNode.flags, HAS_PARAM_EDGE)
       THEN [E |-> [E EXCEPT !.nodes[startIndex + 1] =
                      setParamEdge([startNode EXCEPT
                                      !.flags = SetFlag(@, HAS_PARAM_EDGE)],
                                   0, instrStart, destNode)],
             err |-> "", child |-> destNode]
     ELSE IF same # {}
       THEN [E |-> E, err |-> "", child |-> getParamChild(startNode, Min(same))]
     ELSE IF ec >= MAX_PARAM_EDGES_PER_NODE
       THEN [E |-> E, err |-> "TooManyParamVariants", child |-> 0]
     ELSE [E |-> [E EXCEPT !.nodes[startIndex + 1] =
                    [setParamEdge(startNode, ec, instrStart, destNode)
                       EXCEPT !.paramEdgeCount = ec + 1]],
           err |-> "", child |-> destNode]

(* Returns [E, err, child]: the engine, the error thrown ("" when none)    *)
(* and the node the walk descends to.                                       *)
installParamEdgeVariant(E, startIndex, instrStart, destNode) ==
  LET startNode == NodeAt(E, startIndex)
      ec == startNode.paramEdgeCount
      same == EqualSlots(E, startNode, instrStart)
  IN IF ~HasFlag(startNode.flags, HAS_PARAM_EDGE)
       THEN [E |-> [E EXCEPT !.nodes[startIndex + 1] =
                      setParamEdge([startNode EXCEPT
                                      !.flags = SetFlag(@, HAS_PARAM_EDGE),
                                      !.paramEdgeCount = 1],
                                   0, instrStart, destNode)],
             err |-> "", child |-> destNode]
     ELSE IF same # {}
       THEN [E |-> E, err |-> "", child |-> getParamChild(startNode, Min(same))]
     ELSE IF ec >= MAX_PARAM_EDGES_PER_NODE
       THEN [E |-> E, err |-> "TooManyParamVariants", child |-> 0]
     ELSE [E |-> [E EXCEPT !.nodes[startIndex + 1] =
                    [setParamEdge(startNode, ec, instrStart, destNode)
                       EXCEPT !.paramEdgeCount = ec + 1]],
           err |-> "", child |-> destNode]

---------------------------------------------------------------------------
(* Template compilation: one parameter segment *)

(* A name character test that lets the dash through *)
IsNameCharOrDash(cc) ==
  \/ (cc >= 65 /\ cc <= 90) \/ (cc >= 97 /\ cc <= 122)
  \/ (cc >= 48 /\ cc <= 57)
  \/ cc = 95 \/ cc = 45

(* isAZ || is09 || isUS *)
IsNameChar(cc) ==
  \/ (cc >= 65 /\ cc <= 90) \/ (cc >= 97 /\ cc <= 122)
  \/ (cc >= 48 /\ cc <= 57)
  \/ cc = 95

(* The scan of a parameter name from index i: [i, err], where i is the     *)
(* index of the closing brace or the length of the template.  Only the     *)
(* first name of a segment reports a backslash as an escape.               *)
RECURSIVE scanName(_, _, _)
scanName(t, i, first) ==
  IF i >= Len(t) THEN [i |-> i, err |-> ""]
  ELSE LET cc == CharAt(t, i)
       IN IF cc = ASCII_RBRACE THEN [i |-> i, err |-> ""]
          ELSE IF first /\ cc = ASCII_BACKSLASH
            THEN [i |-> i, err |-> "EscapeInParamName"]
          ELSE IF ~IsNameChar(cc) THEN [i |-> i, err |-> "InvalidParamChar"]
          ELSE scanName(t, i + 1, first)

(* The stop character of a capture whose closing brace is just before i:   *)
(* [stop, err].                                                             *)
stopCharAt(t, i, d) ==
  IF i >= Len(t) THEN [stop |-> d, err |-> ""]
  ELSE LET cc == CharAt(t, i)
       IN IF Low7(cc) = d THEN [stop |-> d, err |-> ""]
          ELSE IF cc = ASCII_LBRACE THEN [stop |-> d, err |-> "AdjacentParams"]
          ELSE IF cc = ASCII_STAR THEN [stop |-> d, err |-> "WildcardNotTrailing"]
          ELSE IF cc = ASCII_BACKSLASH
            THEN IF i + 1 >= Len(t) THEN [stop |-> d, err |-> "TrailingEscape"]
                 ELSE IF Low7(CharAt(t, i + 1)) # CharAt(t, i + 1)
                   THEN [stop |-> d, err |-> "NonAscii"]
                 ELSE [stop |-> Low7(CharAt(t, i + 1)), err |-> ""]
          ELSE IF Low7(cc) # cc THEN [stop |-> d, err |-> "NonAscii"]
          ELSE [stop |-> Low7(cc), err |-> ""]

(* One `{name}` starting at braceAt: the name is checked and recorded, its *)
(* CAPTURE_UNTIL emitted.  [E, err, i, seen, keys, captureCount]            *)
compileCapture(E, t, braceAt, d, seen, keys, captureCount, first) ==
  LET nameStart == braceAt + 1
      sc == scanName(t, nameStart, first)
      i == sc.i
      name == Slice(t, nameStart, i)
      st == stopCharAt(t, i + 1, d)
      fail(e) == [E |-> E, err |-> e, i |-> i, seen |-> seen, keys |-> keys,
                  captureCount |-> captureCount]
  IN IF sc.err # "" THEN fail(sc.err)
     ELSE IF i >= Len(t) THEN fail("UnclosedBrace")
     ELSE IF i = nameStart THEN fail("EmptyParamName")
     ELSE IF name \in seen THEN fail("DuplicateParamName")
     ELSE IF st.err # "" THEN fail(st.err)
     ELSE [E |-> emitCaptureUntil(E, st.stop, captureCount), err |-> "",
           i |-> i + 1, seen |-> seen \cup {name}, keys |-> Append(keys, name),
           captureCount |-> captureCount + 1]

(* The inner loop over one literal run: bytes are appended to the literal  *)
(* pool as they are read.  [E, err, i, litLen]                              *)
RECURSIVE literalRun(_, _, _, _, _)
literalRun(E, t, i, d, litLen) ==
  IF i >= Len(t) THEN [E |-> E, err |-> "", i |-> i, litLen |-> litLen]
  ELSE LET c2 == CharAt(t, i)
           fail(e) == [E |-> E, err |-> e, i |-> i, litLen |-> litLen]
       IN IF Low7(c2) = d \/ c2 = ASCII_LBRACE
            THEN [E |-> E, err |-> "", i |-> i, litLen |-> litLen]
          ELSE IF c2 = ASCII_RBRACE THEN fail("StrayRBrace")
          ELSE IF c2 = ASCII_STAR THEN fail("WildcardNotTrailing")
          ELSE IF c2 = ASCII_BACKSLASH
            THEN IF i + 1 >= Len(t) THEN fail("TrailingEscape")
                 ELSE IF Low7(CharAt(t, i + 1)) # CharAt(t, i + 1) THEN fail("NonAscii")
                 ELSE literalRun([E EXCEPT !.literalPool = Append(@, CharAt(t, i + 1))],
                                 t, i + 2, d, litLen + 1)
          ELSE IF Low7(c2) # c2 THEN fail("NonAscii")
          ELSE literalRun([E EXCEPT !.literalPool = Append(@, c2)], t, i + 1, d, litLen + 1)

(* The loop over the rest of the segment after its first capture.          *)
(* [E, err, i, seen, keys, captureCount]                                    *)
RECURSIVE segmentLoop(_, _, _, _, _, _, _)
RECURSIVE segmentAfterLiteral(_, _, _, _, _, _, _)
RECURSIVE segmentAfterCapture(_, _, _)

(* After the inner loop over a literal run (run is its result): a run of   *)
(* one byte is emitted as MATCH_LITERAL, a longer one as MATCH_LITERAL_SEQ *)
segmentAfterLiteral(t, d, seen, keys, captureCount, litOff, run) ==
  IF run.err # ""
    THEN [E |-> run.E, err |-> run.err, i |-> run.i, seen |-> seen,
          keys |-> keys, captureCount |-> captureCount]
  ELSE IF run.litLen = 1
    THEN segmentLoop(emitMatchLiteral(run.E, run.E.literalPool[litOff + 1]),
                     t, run.i, d, seen, keys, captureCount)
  ELSE IF run.litLen > 1
    THEN segmentLoop(emitMatchLiteralSeq(run.E, litOff, run.litLen),
                     t, run.i, d, seen, keys, captureCount)
  ELSE segmentLoop(run.E, t, run.i, d, seen, keys, captureCount)

(* After a further capture of the segment (c is the result of its          *)
(* compilation)                                                            *)
segmentAfterCapture(t, d, c) ==
  IF c.err # "" THEN c
  ELSE segmentLoop(c.E, t, c.i, d, c.seen, c.keys, c.captureCount)

segmentLoop(E, t, i, d, seen, keys, captureCount) ==
  IF i >= Len(t) \/ Low7(CharAt(t, i)) = d
    THEN [E |-> E, err |-> "", i |-> i, seen |-> seen, keys |-> keys,
          captureCount |-> captureCount]
  ELSE IF CharAt(t, i) # ASCII_LBRACE
    THEN segmentAfterLiteral(t, d, seen, keys, captureCount, Len(E.literalPool),
                             literalRun(E, t, i, d, 0))
  ELSE segmentAfterCapture(t, d, compileCapture(E, t, i, d, seen, keys,
                                                captureCount, FALSE))

(* _compileParamEdge throws: X is the capture or loop result that failed *)
compileFail(X) ==
  [E |-> X.E, err |-> X.err, instrStart |-> 0, destNode |-> 0,
   nextIndex |-> X.i, seen |-> X.seen, keys |-> X.keys,
   captureCount |-> X.captureCount]

(* The end of _compileParamEdge: END is emitted and the destination node   *)
(* created. instrStart is the instruction count at entry, l the result of  *)
(* the segment loop.                                                       *)
compileEnd(instrStart, l) ==
  IF l.err # "" THEN compileFail(l)
  ELSE [E |-> newNode(emitEnd(l.E)), err |-> "", instrStart |-> instrStart,
        destNode |-> NodeCount(l.E), nextIndex |-> l.i, seen |-> l.seen,
        keys |-> l.keys, captureCount |-> l.captureCount]

(* _compileParamEdge after its first capture c *)
compileRest(instrStart, t, d, c) ==
  IF c.err # "" THEN compileFail(c)
  ELSE compileEnd(instrStart,
                  segmentLoop(c.E, t, c.i, d, c.seen, c.keys, c.captureCount))

(* _compileParamEdge: [E, err, instrStart, destNode, nextIndex, seen,       *)
(* keys, captureCount]                                                      *)
compileParamEdge(E, t, lbraceIndex, d, seen, keys, captureCountIn) ==
  compileRest(InstrLen(E), t, d,
              compileCapture(E, t, lbraceIndex, d, seen, keys, captureCountIn, TRUE))

---------------------------------------------------------------------------
(* insert, delete, finalize *)

(* The closure ensureChild of insert: [E, child] *)
ensureChild(E, from, ch) ==
  LET slot == NodeAt(E, from).transBase + Low7(ch)
      existing == TransAt(E, slot)
  IN IF existing # 0 THEN [E |-> E, child |-> existing]
     ELSE [E |-> setTransition(newNode(E), slot, NodeCount(E)),
           child |-> NodeCount(E)]

(* The walk of insert over the template from index i.                      *)
(* [E, err, nodeIndex, keys]                                                *)
RECURSIVE insertWalk(_, _, _, _, _, _, _)
RECURSIVE walkAfterChild(_, _, _, _, _, _)
RECURSIVE walkAfterCompile(_, _, _, _)
RECURSIVE walkAfterInstall(_, _, _, _, _)

(* insert throws at node nodeIndex, leaving the engine X *)
walkFail(X, e, nodeIndex, keys) ==
  [E |-> X, err |-> e, nodeIndex |-> nodeIndex, keys |-> keys]

(* nodeIndex = ensureChild(nodeIndex, ch); i = nextIndex *)
walkAfterChild(t, nextIndex, seen, keys, captureCount, r) ==
  insertWalk(r.E, t, nextIndex, r.child, seen, keys, captureCount)

(* nodeIndex = _installParamEdgeVariant(...); i = nextIndex *)
walkAfterInstall(t, nodeIndex, keys, compiled, inst) ==
  IF inst.err # "" THEN walkFail(inst.E, inst.err, nodeIndex, keys)
  ELSE insertWalk(inst.E, t, compiled.nextIndex, inst.child,
                  compiled.seen, compiled.keys, compiled.captureCount)

(* The param branch of insert after _compileParamEdge returned or threw *)
walkAfterCompile(t, nodeIndex, keys, compiled) ==
  IF compiled.err # "" THEN walkFail(compiled.E, compiled.err, nodeIndex, keys)
  ELSE walkAfterInstall(t, nodeIndex, keys, compiled,
                        installParamEdgeVariant(compiled.E, nodeIndex,
                                                compiled.instrStart,
                                                compiled.destNode))

insertWalk(E, t, i, nodeIndex, seen, keys, captureCount) ==
  IF i >= Len(t) THEN [E |-> E, err |-> "", nodeIndex |-> nodeIndex, keys |-> keys]
  ELSE LET cc == CharAt(t, i) IN
    IF cc = ASCII_BACKSLASH
      THEN IF i + 1 >= Len(t) THEN walkFail(E, "TrailingEscape", nodeIndex, keys)
           ELSE IF Low7(CharAt(t, i + 1)) # CharAt(t, i + 1)
             THEN walkFail(E, "NonAscii", nodeIndex, keys)
           ELSE walkAfterChild(t, i + 2, seen, keys, captureCount,
                               ensureChild(E, nodeIndex, CharAt(t, i + 1)))
    ELSE IF cc = ASCII_STAR
      THEN IF i + 1 # Len(t) THEN walkFail(E, "WildcardNotTrailing", nodeIndex, keys)
           ELSE IF Low7(IF i > 0 THEN CharAt(t, i - 1) ELSE 0) # E.delim
             THEN walkFail(E, "WildcardNotTrailing", nodeIndex, keys)
           ELSE IF HasFlag(NodeAt(E, nodeIndex).flags, HAS_WILDCARD_EDGE)
             THEN walkFail(E, "ConflictingWildcard", nodeIndex, keys)
           ELSE insertWalk([newNode(E) EXCEPT !.nodes[nodeIndex + 1] =
                              [@ EXCEPT !.flags = SetFlag(@, HAS_WILDCARD_EDGE),
                                        !.wildcardChild = NodeCount(E)]],
                           t, Len(t), NodeCount(E), seen, keys, captureCount)
    ELSE IF cc = ASCII_LBRACE
      THEN walkAfterCompile(t, nodeIndex, keys,
                            compileParamEdge(E, t, i, E.delim, seen, keys, captureCount))
    ELSE IF cc = ASCII_RBRACE THEN walkFail(E, "StrayRBrace", nodeIndex, keys)
    ELSE IF Low7(cc) # cc THEN walkFail(E, "NonAscii", nodeIndex, keys)
    ELSE walkAfterChild(t, i + 1, seen, keys, captureCount,
                        ensureChild(E, nodeIndex, cc))

(* The end of insert: the terminal is marked and the template interned.    *)
setTerminal(E, t, v, nodeIndex, routeParamKeys) ==
  LET valueIndex == Len(E.values)
      hasKeys == Len(routeParamKeys) > 0
      E2 == [newValue(E, v) EXCEPT
               !.nodes[nodeIndex + 1] =
                  [@ EXCEPT !.valueIndex = valueIndex,
                            !.flags = SetFlag(@, TERMINAL),
                            !.paramCount = IF hasKeys THEN Len(routeParamKeys) ELSE 0,
                            !.paramKeysIndex = IF hasKeys THEN Len(E.paramKeyPool) ELSE 0],
               !.paramKeyPool = @ \o routeParamKeys]
  IN IF ~HasInternMap(E) THEN E2
     ELSE [E2 EXCEPT !.routeTemplateToNode.map = (t :> nodeIndex) @@ @]

(* An insert that marks the terminal without looking at its TERMINAL flag *)
insertEndOverwrite(t, v, w) ==
  IF w.err # "" THEN [E |-> w.E, err |-> w.err]
  ELSE [E |-> setTerminal(w.E, t, v, w.nodeIndex, w.keys), err |-> ""]

(* insert after the walk over the template (w is its result) *)
insertEnd(t, v, w) ==
  IF w.err # "" THEN [E |-> w.E, err |-> w.err]
  ELSE IF HasFlag(NodeAt(w.E, w.nodeIndex).flags, TERMINAL)
    THEN [E |-> w.E, err |-> "TerminalExists"]
  ELSE [E |-> setTerminal(w.E, t, v, w.nodeIndex, w.keys), err |-> ""]

(* insert(pathTemplate, value): [E, err], err = "" when it returns          *)
insert(E, t, v) ==
  IF E.frozen THEN [E |-> E, err |-> "Frozen"]
  ELSE IF Len(t) = 0 \/ Low7(CharAt(t, 0)) # E.delim
    THEN [E |-> E, err |-> "MustStartWithDelimiter"]
  ELSE IF HasInternMap(E) /\ Interned(E, t)
    THEN [E |-> E, err |-> "Duplicate"]
  ELSE insertEnd(t, v, insertWalk(E, t, 0, 1, {}, <<>>, 0))

(* The function m with t removed from its domain *)
MapRemove(m, t) == [k \in DOMAIN m \ {t} |-> m[k]]

(* A delete that does not test whether the intern map was dropped *)
deleteUnchecked(E, t) ==
  IF E.frozen THEN [E |-> E, err |-> "Frozen", hit |-> FALSE]
  ELSE [E |-> E, err |-> "", hit |-> FALSE]

(* A delete that treats a template the intern map does not hold as an     *)
(* error.                                                                  *)
deleteStrict(E, t) ==
  IF E.frozen THEN [E |-> E, err |-> "Frozen", hit |-> FALSE]
  ELSE IF ~HasInternMap(E) THEN [E |-> E, err |-> "Unavailable", hit |-> FALSE]
  ELSE IF ~Interned(E, t) THEN [E |-> E, err |-> "NotFound", hit |-> FALSE]
  ELSE LET nodeIndex == E.routeTemplateToNode.map[t]
       IN [E |-> [E EXCEPT !.nodes[nodeIndex + 1] =
                             [@ EXCEPT !.flags = ClearFlag(@, TERMINAL),
                                       !.valueIndex = 0, !.paramCount = 0,
                                       !.paramKeysIndex = 0],
                           !.routeTemplateToNode.map = MapRemove(@, t)],
           err |-> "", hit |-> TRUE]

(* A delete that prunes: it also clears the transitions row of the         *)
(* terminal, cutting off the nodes below it                                *)
deletePrune(E, t) ==
  IF E.frozen THEN [E |-> E, err |-> "Frozen", hit |-> FALSE]
  ELSE IF ~HasInternMap(E) THEN [E |-> E, err |-> "Unavailable", hit |-> FALSE]
  ELSE IF ~Interned(E, t) THEN [E |-> E, err |-> "", hit |-> FALSE]
  ELSE LET nodeIndex == E.routeTemplateToNode.map[t]
           base == NodeAt(E, nodeIndex).transBase
       IN [E |-> [E EXCEPT !.nodes[nodeIndex + 1] =
                             [@ EXCEPT !.flags = ClearFlag(@, TERMINAL),
                                       !.valueIndex = 0, !.paramCount = 0,
                                       !.paramKeysIndex = 0],
                           !.transitionsPool =
                             [s \in {k \in DOMAIN E.transitionsPool :
                                       k < base \/ k >= base + TRANSITIONS_WIDTH}
                                |-> E.transitionsPool[s]],
                           !.routeTemplateToNode.map = MapRemove(@, t)],
           err |-> "", hit |-> TRUE]

(* delete(pathTemplate): [E, err, hit], hit when the intern map had the    *)
(* template                                                                *)
delete(E, t) ==
  IF E.frozen THEN [E |-> E, err |-> "Frozen", hit |-> FALSE]
  ELSE IF ~HasInternMap(E) THEN [E |-> E, err |-> "Unavailable", hit |-> FALSE]
  ELSE IF ~Interned(E, t) THEN [E |-> E, err |-> "", hit |-> FALSE]
  ELSE LET nodeIndex == E.routeTemplateToNode.map[t]
           term == NodeAt(E, nodeIndex)
           E1 == IF HasFlag(term.flags, TERMINAL)
                   THEN [E EXCEPT !.nodes[nodeIndex + 1] =
                           [@ EXCEPT !.flags = ClearFlag(@, TERMINAL),
                                     !.valueIndex = 0, !.paramCount = 0,
                                     !.paramKeysIndex = 0]]
                   ELSE E
       IN [E |-> [E1 EXCEPT !.routeTemplateToNode.map = MapRemove(@, t)], err |-> "",
           hit |-> TRUE]

(* A finalize that assigns the freeze option to the frozen flag *)
finalizeAssign(E, freeze, dropInternMap) ==
  LET E1 == IF dropInternMap THEN [E EXCEPT !.routeTemplateToNode = NullMap] ELSE E
  IN [E1 EXCEPT !.frozen = freeze]

(* finalize({freeze, dropInternMap}) *)
finalize(E, freeze, dropInternMap) ==
  LET E1 == IF dropInternMap THEN [E EXCEPT !.routeTemplateToNode = NullMap] ELSE E
  IN IF freeze THEN [E1 EXCEPT !.frozen = TRUE] ELSE E1

(* getParamKeysForNode(nodeIndex) *)
getParamKeysForNode(E, nodeIndex) ==
  LET n == NodeAt(E, nodeIndex)
  IN IF n.paramCount = 0 THEN <<>>
     ELSE [k \in 1..n.paramCount |-> E.paramKeyPool[n.paramKeysIndex + k]]

---------------------------------------------------------------------------
(* The instruction interpreter *)

(* The scanning loop of a capture: the cursor moves to the first stop byte *)
(* or to the end; a non-ASCII code unit on the way makes the program fail. *)
(* [cursor, bad]                                                            *)
RECURSIVE scanUntil(_, _, _)
scanUntil(path, cursor, stop) ==
  IF cursor >= Len(path) THEN [cursor |-> cursor, bad |-> FALSE]
  ELSE LET cc == CharAt(path, cursor)
       IN IF Low7(cc) # cc THEN [cursor |-> cursor, bad |-> TRUE]
          ELSE IF Low7(cc) = stop THEN [cursor |-> cursor, bad |-> FALSE]
          ELSE scanUntil(path, cursor + 1, stop)

(* memoryPool[base] = start; memoryPool[base + 1] = end *)
writePair(pool, base, start, end) ==
  [pool EXCEPT ![base + 1] = start, ![base + 2] = end]

(* The results of _execInstr: ok is the returned boolean, cursor and cap   *)
(* are the values left in _execCursor and _execCap when ok, pool is the    *)
(* caller's buffer afterwards, disp counts the instructions dispatched.    *)
ExecResult(ok, pool, cursor, cap, disp) ==
  [ok |-> ok, pool |-> pool, cursor |-> cursor, cap |-> cap, disp |-> disp]

(* A bound check on the first word of the pair only *)
PoolTooSmallFirstWord(pool, base) == base >= Len(pool)

(* if (base + 1 >= memoryPool.length) return false *)
PoolTooSmall(pool, base) == base + 1 >= Len(pool)

(* The generic loop: [ok, pool, cursor, cap, disp] *)
RECURSIVE matchSeq(_, _, _, _, _, _)
matchSeq(E, path, cursor, off, seqLen, k) ==
  IF k >= seqLen THEN [ok |-> TRUE, cursor |-> cursor]
  ELSE IF cursor >= Len(path) THEN [ok |-> FALSE, cursor |-> cursor]
  ELSE LET cc == CharAt(path, cursor)
       IN IF Low7(cc) # cc THEN [ok |-> FALSE, cursor |-> cursor]
          ELSE IF off + k >= Len(E.literalPool) \/ cc # E.literalPool[off + k + 1]
            THEN [ok |-> FALSE, cursor |-> cursor]
          ELSE matchSeq(E, path, cursor + 1, off, seqLen, k + 1)

RECURSIVE execGeneric(_, _, _, _, _, _, _)
execGeneric(E, ip, path, cursor, pool, cap, disp) ==
  LET w == InstrAt(E, ip)
      op == OpOf(w)
      no == ExecResult(FALSE, pool, cursor, cap, disp + 1)
  IN IF op = OP_MATCH_LITERAL
       THEN IF cursor >= Len(path) THEN no
            ELSE IF Low7(CharAt(path, cursor)) # CharAt(path, cursor) THEN no
            ELSE IF CharAt(path, cursor) # OperandOf(w) % 256 THEN no
            ELSE execGeneric(E, ip + 1, path, cursor + 1, pool, cap, disp + 1)
     ELSE IF op = OP_MATCH_LITERAL_SEQ
       THEN LET m == matchSeq(E, path, cursor, InstrAt(E, ip + 1),
                              OperandOf(w) % 65536, 0)
            IN IF ~m.ok THEN ExecResult(FALSE, pool, m.cursor, cap, disp + 1)
               ELSE execGeneric(E, ip + 2, path, m.cursor, pool, cap, disp + 1)
     ELSE IF op = OP_CAPTURE_UNTIL
       THEN LET sc == scanUntil(path, cursor, OperandOf(w) % 256)
                base == cap * 2
            IN IF sc.bad THEN ExecResult(FALSE, pool, sc.cursor, cap, disp + 1)
               ELSE IF PoolTooSmall(pool, base)
                 THEN ExecResult(FALSE, pool, sc.cursor, cap, disp + 1)
               ELSE execGeneric(E, ip + 2, path, sc.cursor,
                                writePair(pool, base, cursor, sc.cursor),
                                cap + 1, disp + 1)
     ELSE IF op = OP_END THEN ExecResult(TRUE, pool, cursor, cap, disp + 1)
     ELSE no

(* The single-capture fast path refusing an empty capture *)
execSingleCaptureNonEmpty(E, path, cursor, pool, cap) ==
  LET sc == scanUntil(path, cursor, E.delim)
      base == cap * 2
  IN IF sc.bad THEN ExecResult(FALSE, pool, sc.cursor, cap, 1)
     ELSE IF sc.cursor = cursor THEN ExecResult(FALSE, pool, sc.cursor, cap, 1)
     ELSE IF PoolTooSmall(pool, base) THEN ExecResult(FALSE, pool, sc.cursor, cap, 1)
     ELSE ExecResult(TRUE, writePair(pool, base, cursor, sc.cursor), sc.cursor, cap + 1, 1)

(* Fast path: CAPTURE_UNTIL(<delim>) ; END *)
IsSingleCapture(E, ip) ==
  /\ OpOf(InstrAt(E, ip)) = OP_CAPTURE_UNTIL
  /\ OperandOf(InstrAt(E, ip)) % 256 = E.delim % 256
  /\ OpOf(InstrAt(E, ip + 2)) = OP_END

execSingleCapture(E, path, cursor, pool, cap) ==
  LET sc == scanUntil(path, cursor, E.delim)
      base == cap * 2
  IN IF sc.bad THEN ExecResult(FALSE, pool, sc.cursor, cap, 1)
     ELSE IF PoolTooSmall(pool, base) THEN ExecResult(FALSE, pool, sc.cursor, cap, 1)
     ELSE ExecResult(TRUE, writePair(pool, base, cursor, sc.cursor), sc.cursor, cap + 1, 1)

(* Fast path: CAPTURE_UNTIL('.') ; MATCH_LITERAL('.') ; CAPTURE_UNTIL('/') ; END *)
IsDotPair(E, ip) ==
  /\ OpOf(InstrAt(E, ip)) = OP_CAPTURE_UNTIL
  /\ OperandOf(InstrAt(E, ip)) % 256 = ASCII_DOT
  /\ OpOf(InstrAt(E, ip + 2)) = OP_MATCH_LITERAL
  /\ OperandOf(InstrAt(E, ip + 2)) % 256 = ASCII_DOT
  /\ OpOf(InstrAt(E, ip + 3)) = OP_CAPTURE_UNTIL
  /\ OperandOf(InstrAt(E, ip + 3)) % 256 = ASCII_SLASH
  /\ OpOf(InstrAt(E, ip + 5)) = OP_END

execDotPair(E, path, cursor, pool, cap) ==
  LET s0 == scanUntil(path, cursor, ASCII_DOT)
      s1 == scanUntil(path, s0.cursor + 1, ASCII_SLASH)
      base0 == cap * 2
      base1 == (cap + 1) * 2
  IN IF s0.bad THEN ExecResult(FALSE, pool, s0.cursor, cap, 1)
     ELSE IF s0.cursor >= Len(path) THEN ExecResult(FALSE, pool, s0.cursor, cap, 1)
     ELSE IF CharAt(path, s0.cursor) # ASCII_DOT
       THEN ExecResult(FALSE, pool, s0.cursor, cap, 1)
     ELSE IF s1.bad THEN ExecResult(FALSE, pool, s1.cursor, cap, 1)
     ELSE IF PoolTooSmall(pool, base1) THEN ExecResult(FALSE, pool, s1.cursor, cap, 1)
     ELSE ExecResult(TRUE,
                     writePair(writePair(pool, base0, cursor, s0.cursor),
                               base1, s0.cursor + 1, s1.cursor),
                     s1.cursor, cap + 2, 1)

(* _execInstr(instrStart, path, cursorIn, memoryPool, capIn) *)
execInstr(E, instrStart, path, cursorIn, pool, capIn) ==
  IF IsSingleCapture(E, instrStart)
    THEN execSingleCapture(E, path, cursorIn, pool, capIn)
  ELSE IF IsDotPair(E, instrStart)
    THEN execDotPair(E, path, cursorIn, pool, capIn)
  ELSE execGeneric(E, instrStart, path, cursorIn, pool, capIn, 0)

---------------------------------------------------------------------------
(* The search VM *)

EmptyOut ==
  [found |-> FALSE, value |-> Undefined, nodeIndex |-> Undefined,
   paramCount |-> Undefined, wildcardStart |-> Undefined, wildcardEnd |-> Undefined]

(* A reset that clears found and leaves the other fields *)
resetOutFoundOnly(o) == [o EXCEPT !.found = FALSE]

(* The six assignments at the head of searchInto *)
resetOut(o) ==
  [o EXCEPT !.found = FALSE, !.value = Undefined, !.nodeIndex = Undefined,
            !.paramCount = Undefined, !.wildcardStart = Undefined,
            !.wildcardEnd = Undefined]

(* A scan that looks at the first code unit only *)
HasNonAsciiFirst(path) == Len(path) > 0 /\ Low7(path[1]) # path[1]

(* The scan that enforces the ASCII contract *)
HasNonAscii(path) == \E k \in 1..Len(path) : Low7(path[k]) # path[k]

(* out filled from a terminal node *)
fillOut(E, o, nodeIndex) ==
  [o EXCEPT !.found = TRUE, !.nodeIndex = Some(nodeIndex),
            !.paramCount = Some(NodeAt(E, nodeIndex).paramCount),
            !.value = Some(E.values[NodeAt(E, nodeIndex).valueIndex + 1])]

(* out filled with a wildcard range that starts at the delimiter *)
fillOutWildcardAtDelimiter(E, o, destIndex, cursor, len) ==
  [fillOut(E, o, destIndex) EXCEPT !.wildcardStart = Some(cursor - 1),
                                   !.wildcardEnd = Some(len)]

(* out filled from the terminal destination of a wildcard edge *)
fillOutWildcard(E, o, destIndex, cursor, len) ==
  [fillOut(E, o, destIndex) EXCEPT !.wildcardStart = Some(cursor),
                                   !.wildcardEnd = Some(len)]

(* The node has a wildcard edge whose destination is a terminal *)
WildcardReady(E, node) ==
  /\ HasFlag(node.flags, HAS_WILDCARD_EDGE)
  /\ HasFlag(NodeAt(E, node.wildcardChild).flags, TERMINAL)

(* A search that tries the param edges of a node before its static         *)
(* transition.                                                             *)
staticNextParamFirst(E, node, cc) ==
  LET next == TransAt(E, node.transBase + Low7(cc))
  IN IF next # 0 /\ cc = Low7(cc) /\ ~HasFlag(node.flags, HAS_PARAM_EDGE)
       THEN next ELSE 0

(* The static branch: the child for the code unit cc, 0 when the branch   *)
(* is not taken (no transition, or cc is not its own low seven bits).     *)
staticNext(E, node, cc) ==
  LET next == TransAt(E, node.transBase + Low7(cc))
  IN IF next # 0 /\ cc = Low7(cc) THEN next ELSE 0

(* A search that stays on the node after a slot's program matched *)
paramDestStay(node, slot) == node.transBase \div TRANSITIONS_WIDTH

(* nodeIndex = node.paramChild<slot> | 0, after the slot's program matched *)
paramDest(node, slot) == getParamChild(node, slot)

(* The param variants of a node tried from the last slot down *)
RECURSIVE trySlotsLastFirst(_, _, _, _, _, _, _, _)
trySlotsLastFirst(E, node, path, cursor, pool, cap, s, execs) ==
  IF s >= MAX_PARAM_EDGES_PER_NODE \/ s >= node.paramEdgeCount
    THEN [ok |-> FALSE, slot |-> s, pool |-> pool, cursor |-> cursor, cap |-> cap,
          execs |-> execs]
  ELSE LET slot == node.paramEdgeCount - 1 - s
           r == execInstr(E, getParamInstr(node, slot), path, cursor, pool, cap)
           ex == Append(execs, [slot |-> slot, ok |-> r.ok, disp |-> r.disp,
                                from |-> cursor, to |-> r.cursor,
                                instrStart |-> getParamInstr(node, slot)])
       IN IF r.ok
            THEN [ok |-> TRUE, slot |-> slot, pool |-> r.pool, cursor |-> r.cursor,
                  cap |-> r.cap, execs |-> ex]
            ELSE trySlotsLastFirst(E, node, path, cursor, r.pool, cap, s + 1, ex)

(* What a search records of one program execution: its slot, result,     *)
(* dispatch count, the cursor before and after, the program's start        *)
ExecRecord(node, s, cursor, r) ==
  [slot |-> s, ok |-> r.ok, disp |-> r.disp, from |-> cursor, to |-> r.cursor,
   instrStart |-> getParamInstr(node, s)]

(* A search that tries no param slot *)
trySlotsNone(E, node, path, cursor, pool, cap, s, execs) ==
  [ok |-> FALSE, slot |-> s, pool |-> pool, cursor |-> cursor, cap |-> cap,
   execs |-> execs]

(* The param variants of a node tried from slot s on, in slot order.       *)
(* [ok, slot, pool, cursor, cap, execs]: execs lists the programs          *)
(* executed.                                                               *)
RECURSIVE trySlots(_, _, _, _, _, _, _, _)
RECURSIVE slotTried(_, _, _, _, _, _, _, _, _)

(* After the program of slot s returned r: descend, or try the next slot   *)
(* with the captures rewound to cap                                        *)
slotTried(E, node, path, cursor, pool, cap, s, execs, r) ==
  IF r.ok
    THEN [ok |-> TRUE, slot |-> s, pool |-> r.pool, cursor |-> r.cursor,
          cap |-> r.cap, execs |-> Append(execs, ExecRecord(node, s, cursor, r))]
    ELSE trySlots(E, node, path, cursor, r.pool, cap, s + 1,
                  Append(execs, ExecRecord(node, s, cursor, r)))

trySlots(E, node, path, cursor, pool, cap, s, execs) ==
  IF s >= MAX_PARAM_EDGES_PER_NODE \/ s >= node.paramEdgeCount
    THEN [ok |-> FALSE, slot |-> s, pool |-> pool, cursor |-> cursor, cap |-> cap,
          execs |-> execs]
  ELSE slotTried(E, node, path, cursor, pool, cap, s, execs,
                 execInstr(E, getParamInstr(node, s), path, cursor, pool, cap))

(* A node without param edges: no slot is tried *)
NoSlots(pool, cursor, cap) ==
  [ok |-> FALSE, slot |-> 0, pool |-> pool, cursor |-> cursor, cap |-> cap,
   execs |-> <<>>]

(* The result of searchInto: ret is the returned boolean, out and pool the *)
(* caller's struct and buffer afterwards, execCursor and execCap the       *)
(* engine's scratch fields afterwards, trace one record per iteration of   *)
(* the main loop, returned FALSE when the loop used up its fuel.           *)
SearchResult(ret, o, pool, ec, ecap, steps, returned) ==
  [ret |-> ret, out |-> o, pool |-> pool, execCursor |-> ec, execCap |-> ecap,
   trace |-> steps, returned |-> returned]

Step(nodeIndex, cursor, cap, edge, slot, execs) ==
  [node |-> nodeIndex, cursor |-> cursor, cap |-> cap, edge |-> edge,
   slot |-> slot, execs |-> execs]

(* searchInto returns in the iteration `step` *)
searchReturn(st, ret, o, pool, ecur, ecap, step) ==
  SearchResult(ret, o, pool, ecur, ecap, Append(st.trace, step), TRUE)

(* An iteration with cursor === len that looks at the node's TERMINAL flag *)
(* only, so that a wildcard edge needs a non-empty tail                    *)
searchAtEndTerminalOnly(E, o, pool, nodeIndex, cursor, cap, ecur, ecap, st) ==
  IF HasFlag(NodeAt(E, nodeIndex).flags, TERMINAL)
    THEN searchReturn(st, TRUE, fillOut(E, o, nodeIndex), pool, ecur, ecap,
                      Step(nodeIndex, cursor, cap, "terminal", 0, <<>>))
  ELSE searchReturn(st, FALSE, o, pool, ecur, ecap,
                    Step(nodeIndex, cursor, cap, "none", 0, <<>>))

(* An iteration with cursor === len that, when the node reached gives no   *)
(* result, goes back to a node left through a param slot and takes that    *)
(* node's wildcard edge                                                    *)
searchAtEndBacktrack(E, o, pool, nodeIndex, cursor, cap, ecur, ecap, st) ==
  LET back == {k \in DOMAIN st.trace :
                 /\ st.trace[k].edge = "param"
                 /\ WildcardReady(E, NodeAt(E, st.trace[k].node))}
      k == CHOOSE k \in back : \A j \in back : j <= k
  IN IF HasFlag(NodeAt(E, nodeIndex).flags, TERMINAL)
       THEN searchReturn(st, TRUE, fillOut(E, o, nodeIndex), pool, ecur, ecap,
                         Step(nodeIndex, cursor, cap, "terminal", 0, <<>>))
     ELSE IF WildcardReady(E, NodeAt(E, nodeIndex))
       THEN searchReturn(st, TRUE,
                         fillOutWildcard(E, o, NodeAt(E, nodeIndex).wildcardChild,
                                         cursor, cursor),
                         pool, ecur, ecap,
                         Step(nodeIndex, cursor, cap, "wildcard", 0, <<>>))
     ELSE IF back # {}
       THEN searchReturn(st, TRUE,
                         fillOutWildcard(E, o,
                                         NodeAt(E, st.trace[k].node).wildcardChild,
                                         st.trace[k].cursor, cursor),
                         pool, ecur, ecap,
                         Step(st.trace[k].node, st.trace[k].cursor, st.trace[k].cap,
                              "wildcard", 0, <<>>))
     ELSE searchReturn(st, FALSE, o, pool, ecur, ecap,
                       Step(nodeIndex, cursor, cap, "none", 0, <<>>))

(* The iteration with cursor === len (the wildcard range is [len, len)) *)
searchAtEnd(E, o, pool, nodeIndex, cursor, cap, ecur, ecap, st) ==
  IF HasFlag(NodeAt(E, nodeIndex).flags, TERMINAL)
    THEN searchReturn(st, TRUE, fillOut(E, o, nodeIndex), pool, ecur, ecap,
                      Step(nodeIndex, cursor, cap, "terminal", 0, <<>>))
  ELSE IF WildcardReady(E, NodeAt(E, nodeIndex))
    THEN searchReturn(st, TRUE,
                      fillOutWildcard(E, o, NodeAt(E, nodeIndex).wildcardChild,
                                      cursor, cursor),
                      pool, ecur, ecap,
                      Step(nodeIndex, cursor, cap, "wildcard", 0, <<>>))
  ELSE searchReturn(st, FALSE, o, pool, ecur, ecap,
                    Step(nodeIndex, cursor, cap, "none", 0, <<>>))

RECURSIVE searchLoop(_, _, _, _, _, _, _, _, _, _)
RECURSIVE searchAfterParams(_, _, _, _, _, _, _, _, _, _)

(* The iteration after the param variants were tried (tr is their result): *)
(* descend through the slot that matched, else the wildcard edge, else     *)
(* return false                                                            *)
searchAfterParams(E, path, o, nodeIndex, cursor, cap, ecur, ecap, st, tr) ==
  IF tr.ok
    THEN searchLoop(E, path, o, tr.pool, paramDest(NodeAt(E, nodeIndex), tr.slot),
                    tr.cursor, tr.cap, tr.cursor, tr.cap,
                    [fuel |-> st.fuel - 1,
                     trace |-> Append(st.trace,
                                      Step(nodeIndex, cursor, cap, "param",
                                           tr.slot, tr.execs))])
  ELSE IF WildcardReady(E, NodeAt(E, nodeIndex))
    THEN searchReturn(st, TRUE,
                      fillOutWildcard(E, o, NodeAt(E, nodeIndex).wildcardChild,
                                      cursor, Len(path)),
                      tr.pool, ecur, ecap,
                      Step(nodeIndex, cursor, cap, "wildcard", 0, tr.execs))
  ELSE searchReturn(st, FALSE, o, tr.pool, ecur, ecap,
                    Step(nodeIndex, cursor, cap, "none", 0, tr.execs))

searchLoop(E, path, o, pool, nodeIndex, cursor, cap, ecur, ecap, st) ==
  LET node == NodeAt(E, nodeIndex)
  IN IF st.fuel = 0 THEN SearchResult(FALSE, o, pool, ecur, ecap, st.trace, FALSE)
     ELSE IF cursor = Len(path)
       THEN searchAtEnd(E, o, pool, nodeIndex, cursor, cap, ecur, ecap, st)
     ELSE IF staticNext(E, node, CharAt(path, cursor)) # 0
       THEN searchLoop(E, path, o, pool, staticNext(E, node, CharAt(path, cursor)),
                       cursor + 1, cap, ecur, ecap,
                       [fuel |-> st.fuel - 1,
                        trace |-> Append(st.trace,
                                         Step(nodeIndex, cursor, cap, "static",
                                              0, <<>>))])
     ELSE searchAfterParams(E, path, o, nodeIndex, cursor, cap, ecur, ecap, st,
                            IF HasFlag(node.flags, HAS_PARAM_EDGE)
                              THEN trySlots(E, node, path, cursor, pool, cap, 0, <<>>)
                              ELSE NoSlots(pool, cursor, cap))

(* The iterations the main loop is given. Every iteration but the last     *)
(* advances the cursor or descends in the trie.                            *)
Fuel(E, path) == Len(path) + NodeCount(E) + 1

(* searchInto(path, memoryPool, out) *)
searchInto(E, path, pool, o) ==
  IF ~E.assumeAscii /\ HasNonAscii(path)
    THEN SearchResult(FALSE, resetOut(o), pool, E.execCursor, E.execCap, <<>>, TRUE)
    ELSE searchLoop(E, path, resetOut(o), pool, 1, 0, 0, E.execCursor, E.execCap,
                    [fuel |-> Fuel(E, path), trace |-> <<>>])

---------------------------------------------------------------------------
(* Batch inserts *)

(* A preflight that accepts every batch *)
batchPreflightNone(E, templates, i, seen) == ""

(* The preflight loop of the batch inserts over the templates from the     *)
(* i-th on: the error it throws, "" when it passes. seen is the scratch    *)
(* template set, cleared at the start of every batch call.                 *)
RECURSIVE batchPreflight(_, _, _, _)
batchPreflight(E, templates, i, seen) ==
  IF i > Len(templates) THEN ""
  ELSE IF templates[i] \in seen THEN "DuplicateInBatch"
  ELSE IF HasInternMap(E) /\ Interned(E, templates[i]) THEN "AlreadyInserted"
  ELSE batchPreflight(E, templates, i + 1, seen \cup {templates[i]})

(* The insert loop of the batch inserts from the i-th entry on; r is the   *)
(* result of the insert of the entry before                                *)
RECURSIVE insertEach(_, _, _)
RECURSIVE insertEachAfter(_, _, _)
insertEach(E, entries, i) ==
  IF i > Len(entries) THEN [E |-> E, err |-> ""]
  ELSE insertEachAfter(insert(E, entries[i][1], entries[i][2]), entries, i)

insertEachAfter(r, entries, i) ==
  IF r.err # "" THEN r ELSE insertEach(r.E, entries, i + 1)

(* insertBatch(entries), entries a list of [pathTemplate, value] *)
insertBatch(E, entries) ==
  IF batchPreflight(E, [i \in 1..Len(entries) |-> entries[i][1]], 1, {}) # ""
    THEN [E |-> E,
          err |-> batchPreflight(E, [i \in 1..Len(entries) |-> entries[i][1]], 1, {})]
    ELSE insertEach(E, entries, 1)

(* insertBatchParallel(templates, values) *)
insertBatchParallel(E, templates, vals) ==
  IF Len(vals) # Len(templates) THEN [E |-> E, err |-> "LengthMismatch"]
  ELSE IF batchPreflight(E, templates, 1, {}) # ""
    THEN [E |-> E, err |-> batchPreflight(E, templates, 1, {})]
  ELSE insertEach(E, [i \in 1..Len(templates) |-> <<templates[i], vals[i]>>], 1)

(* insertBatchFromObject(routes): routes is the list of the object's own   *)
(* [key, value] properties in enumeration order, its keys distinct         *)
insertBatchFromObject(E, routes) ==
  IF batchPreflight(E, [i \in 1..Len(routes) |-> routes[i][1]], 1, {}) # ""
    THEN [E |-> E,
          err |-> batchPreflight(E, [i \in 1..Len(routes) |-> routes[i][1]], 1, {})]
    ELSE insertEach(E, routes, 1)

---------------------------------------------------------------------------
(* Prefix queries *)

(* A walk that follows the first param edge where the byte has no static   *)
(* transition                                                              *)
RECURSIVE staticWalkOrParam(_, _, _, _)
staticWalkOrParam(E, prefix, nodeIndex, i) ==
  IF i >= Len(prefix) THEN nodeIndex
  ELSE LET cc == CharAt(prefix, i)
           n == NodeAt(E, nodeIndex)
           next == TransAt(E, n.transBase + Low7(cc))
       IN IF Low7(cc) # cc THEN 0
          ELSE IF next = 0
            THEN (IF HasFlag(n.flags, HAS_PARAM_EDGE)
                    THEN staticWalkOrParam(E, prefix, getParamChild(n, 0), i + 1)
                    ELSE 0)
          ELSE staticWalkOrParam(E, prefix, next, i + 1)

(* The walk of isPrefix and prefixSearch over static transitions: the node *)
(* reached, or 0 when a byte is non-ASCII or has no transition.            *)
RECURSIVE staticWalk(_, _, _, _)
staticWalk(E, prefix, nodeIndex, i) ==
  IF i >= Len(prefix) THEN nodeIndex
  ELSE LET cc == CharAt(prefix, i)
           next == TransAt(E, NodeAt(E, nodeIndex).transBase + Low7(cc))
       IN IF Low7(cc) # cc THEN 0
          ELSE IF next = 0 THEN 0
          ELSE staticWalk(E, prefix, next, i + 1)

(* isPrefix(prefix) *)
isPrefix(E, prefix) == staticWalk(E, prefix, 1, 0) # 0

(* The elements of a finite set of numbers in increasing order *)
RECURSIVE Ascending(_)
Ascending(S) ==
  IF S = {} THEN <<>>
  ELSE LET m == CHOOSE x \in S : \A y \in S : x <= y
       IN <<m>> \o Ascending(S \ {m})

(* The children of a node in the order _dfsCollect visits them: static by  *)
(* byte, then the param slots, then the wildcard child.                    *)
dfsChildren(E, n) ==
  LET slots == {k \in DOMAIN E.transitionsPool :
                  k >= n.transBase /\ k < n.transBase + TRANSITIONS_WIDTH}
      st == Ascending(slots)
  IN [k \in 1..Len(st) |-> E.transitionsPool[st[k]]]
     \o (IF HasFlag(n.flags, HAS_PARAM_EDGE)
           THEN [s \in 1..n.paramEdgeCount |-> getParamChild(n, s - 1)]
           ELSE <<>>)
     \o (IF HasFlag(n.flags, HAS_WILDCARD_EDGE) THEN <<n.wildcardChild>> ELSE <<>>)

(* A _dfsCollect that does not descend below a node whose value it took *)
RECURSIVE dfsCollectShallow(_, _)
dfsCollectShallow(E, todo) ==
  IF todo = <<>> THEN <<>>
  ELSE LET n == NodeAt(E, Head(todo))
           here == IF HasFlag(n.flags, TERMINAL) /\ E.values[n.valueIndex + 1] # Undefined
                     THEN <<E.values[n.valueIndex + 1]>>
                     ELSE <<>>
       IN here \o dfsCollectShallow(E, (IF here = <<>> THEN dfsChildren(E, n) ELSE <<>>)
                                        \o Tail(todo))

(* _dfsCollect over a list of nodes still to visit *)
RECURSIVE dfsCollect(_, _)
dfsCollect(E, todo) ==
  IF todo = <<>> THEN <<>>
  ELSE LET n == NodeAt(E, Head(todo))
           here == IF HasFlag(n.flags, TERMINAL) /\ E.values[n.valueIndex + 1] # Undefined
                     THEN <<E.values[n.valueIndex + 1]>>
                     ELSE <<>>
       IN here \o dfsCollect(E, dfsChildren(E, n) \o Tail(todo))

(* prefixSearch(prefix) *)
prefixSearch(E, prefix) ==
  LET start == staticWalk(E, prefix, 1, 0)
  IN IF start = 0 THEN <<>> ELSE dfsCollect(E, <<start>>)

---------------------------------------------------------------------------
(* The state machine: the calls an embedder makes on one engine *)

(* Bounds of the model *)
MaxOps == 3
PoolPairs == 3

(* The templates and paths the calls are drawn from *)
TStatic == Str(<<"/", "b">>)
TParam == Str(<<"/", "{", "x", "}">>)
TParamY == Str(<<"/", "{", "y", "}">>)
TWild == Str(<<"/", "*">>)
TDot == Str(<<"/", "{", "n", "}", ".", "{", "e", "}">>)
TDotX == Str(<<"/", "{", "n", "}", ".", "{", "e", "}", "/", "x">>)
TParamP == Str(<<"/", "{", "u", "}", "/", "p">>)
TUnclosed == Str(<<"/", "a", "{">>)
TInlineY == Str(<<"/", "{", "a", "}", "x", "{", "b", "}", "y">>)
TInlineZQ == Str(<<"/", "{", "a", "}", "x", "{", "b", "}", "z", "/", "q">>)
TInlineYC ==
  Str(<<"/", "{", "a", "}", "x", "{", "b", "}", "y", "/", "{", "c", "}", "z", "z">>)
TInlineYYQ ==
  Str(<<"/", "{", "a", "}", "x", "{", "b", "}", "y", "y", "{", "c", "}", "/", "q">>)

Templates ==
  {TStatic, TParam, TParamY, TWild, TDot, TDotX, TParamP, TUnclosed, TInlineY,
   TInlineZQ, TInlineYC, TInlineYYQ}

PEmpty == Str(<<>>)
PRoot == Str(<<"/">>)
PB == Str(<<"/", "b">>)
PA == Str(<<"/", "a">>)
PAB == Str(<<"/", "a", "b">>)
PADotB == Str(<<"/", "a", ".", "b">>)
PADotBX == Str(<<"/", "a", ".", "b", "/", "x">>)
PAP == Str(<<"/", "a", "/", "p">>)
PInlineY == Str(<<"/", "1", "x", "2", "y">>)
PInlineYQ == Str(<<"/", "1", "x", "2", "y", "/", "q">>)
PEmptySeg == Str(<<"/", "/", "p">>)
PNonAscii == Str(<<"/", "A'">>)

Paths ==
  {PEmpty, PRoot, PB, PA, PAB, PADotB, PADotBX, PAP, PInlineY, PInlineYQ,
   PEmptySeg, PNonAscii}

(* The payload of an insert names its template and the call that made it *)
Payload(t) == <<t, nops>>

(* The caller's capture buffer as allocated: new Uint32Array(2 * PoolPairs) *)
FreshPool == [k \in 1..(2 * PoolPairs) |-> 0]

(* Two callers of searchInto, each with a capture buffer and a result      *)
(* struct of its own. pc is the caller's place in searchInto: "idle"       *)
(* before the call, "loop" at the head of the main loop, "read" between    *)
(* the return of _execInstr and the reads of _execCap and _execCursor,     *)
(* "done" after the return.                                                *)
Readers == {"r1", "r2"}

IdleReader ==
  [pc |-> "idle", path |-> <<>>, node |-> 0, cursor |-> 0, cap |-> 0, slot |-> 0,
   pool |-> FreshPool, out |-> EmptyOut, ret |-> FALSE]

SetEngine(E) ==
  /\ nodes' = E.nodes
  /\ transitionsPool' = E.transitionsPool
  /\ transitionsCapNodes' = E.transitionsCapNodes
  /\ values' = E.values
  /\ instr' = E.instr
  /\ literalPool' = E.literalPool
  /\ paramKeyPool' = E.paramKeyPool
  /\ routeTemplateToNode' = E.routeTemplateToNode
  /\ frozen' = E.frozen
  /\ delim' = E.delim
  /\ assumeAscii' = E.assumeAscii
  /\ execCursor' = E.execCursor
  /\ execCap' = E.execCap

(* The engine as the constructor leaves it *)
(* Math.max(16, (opts?.nodePoolSizeHint ?? 16) | 0), for a hint that is    *)
(* absent or an integer of 32 bits (which | 0 leaves as it is)             *)
CapNodesOf(hint) ==
  LET h == IF hint = Undefined THEN DefaultNodePoolSize ELSE hint[1]
  IN IF h > DefaultNodePoolSize THEN h ELSE DefaultNodePoolSize

NewEngineWithHint(d, ascii, hint) ==
  newNode([nodes |-> <<NewNodeRecord(0)>>, transitionsPool |-> <<>>,
           transitionsCapNodes |-> CapNodesOf(hint), values |-> <<Undefined>>,
           instr |-> <<0>>, literalPool |-> <<>>, paramKeyPool |-> <<>>,
           routeTemplateToNode |-> EmptyMap, frozen |-> FALSE,
           delim |-> d, assumeAscii |-> ascii, execCursor |-> 0, execCap |-> 0])

NewEngine(d, ascii) == NewEngineWithHint(d, ascii, Undefined)

Init ==
  /\ \E ascii \in BOOLEAN :
       LET E == NewEngine(ASCII_SLASH, ascii)
       IN /\ nodes = E.nodes
          /\ transitionsPool = E.transitionsPool
          /\ transitionsCapNodes = E.transitionsCapNodes
          /\ values = E.values
          /\ instr = E.instr
          /\ literalPool = E.literalPool
          /\ paramKeyPool = E.paramKeyPool
          /\ routeTemplateToNode = E.routeTemplateToNode
          /\ frozen = E.frozen
          /\ delim = E.delim
          /\ assumeAscii = E.assumeAscii
          /\ execCursor = E.execCursor
          /\ execCap = E.execCap
  /\ memoryPool = FreshPool
  /\ out = EmptyOut
  /\ readers = [r \in Readers |-> IdleReader]
  /\ machine = Undefined
  /\ cache = Undefined
  /\ history = <<>>
  /\ trace = <<>>
  /\ last = [op |-> "new", arg |-> <<>>, err |-> "", ret |-> FALSE, returned |-> TRUE]
  /\ nops = 0

(* A call of insert or delete returned or threw: r is [E, err] and, for    *)
(* delete, hit                                                             *)
Mutated(op, arg, r) ==
  /\ SetEngine(r.E)
  /\ last' = [op |-> op, arg |-> arg, err |-> r.err,
               ret |-> ("hit" \in DOMAIN r) /\ r.hit, returned |-> r.err = ""]

Insert(t) ==
  /\ nops < MaxOps
  /\ Mutated("insert", t, insert(Engine, t, Payload(t)))
  /\ nops' = nops + 1
  /\ UNCHANGED <<memoryPool, out, trace, readers, machine, cache, history>>

Delete(t) ==
  /\ nops < MaxOps
  /\ Mutated("delete", t, delete(Engine, t))
  /\ nops' = nops + 1
  /\ UNCHANGED <<memoryPool, out, trace, readers, machine, cache, history>>

Finalize(freeze, dropInternMap) ==
  /\ nops < MaxOps
  /\ SetEngine(finalize(Engine, freeze, dropInternMap))
  /\ last' = [op |-> "finalize", arg |-> <<freeze, dropInternMap>>, err |-> "",
               ret |-> FALSE, returned |-> TRUE]
  /\ nops' = nops + 1
  /\ UNCHANGED <<memoryPool, out, trace, readers, machine, cache, history>>

(* A call of searchInto returned r *)
Searches(path, r) ==
  /\ SetEngine([Engine EXCEPT !.execCursor = r.execCursor,
                               !.execCap = r.execCap])
  /\ memoryPool' = r.pool
  /\ out' = r.out
  /\ trace' = r.trace
  /\ last' = [op |-> "search", arg |-> path, err |-> "", ret |-> r.ret,
               returned |-> r.returned]

Search(path) ==
  /\ nops < MaxOps
  /\ Searches(path, searchInto(Engine, path, memoryPool, out))
  /\ nops' = nops + 1
  /\ UNCHANGED <<readers, machine, cache, history>>

Next ==
  \/ \E t \in Templates : Insert(t)
  \/ \E t \in Templates : Delete(t)
  \/ \E freeze, dropInternMap \in BOOLEAN : Finalize(freeze, dropInternMap)
  \/ \E path \in Paths : Search(path)

Spec == Init /\ [][Next]_vars

---------------------------------------------------------------------------
(* Inserts only, of templates whose first segment is a parameter segment,  *)
(* so that one node collects param slots up to its capacity.               *)

MaxInserts == 5

TDash == Str(<<"/", "{", "u", "}", "-", "{", "e", "}">>)
TLitY == Str(<<"/", "{", "p", "}", "y">>)

VariantTemplates == {TParam, TDot, TDash, TLitY, TInlineY, TInlineZQ}

InsertVariant(t) ==
  /\ nops < MaxInserts
  /\ Mutated("insert", t, insert(Engine, t, Payload(t)))
  /\ nops' = nops + 1
  /\ UNCHANGED <<memoryPool, out, trace, readers, machine, cache, history>>

NextCap == \E t \in VariantTemplates : InsertVariant(t)

SpecCap == Init /\ [][NextCap]_vars

---------------------------------------------------------------------------

---------------------------------------------------------------------------
(* Searches that interleave on a frozen engine. A step of a reader is the  *)
(* code between two accesses of the engine's fields _execCursor and        *)
(* _execCap: _execInstr writes them when a program matches (lines 791-792, *)
(* 847-848, 909-910) and searchInto reads them after it returned (lines    *)
(* 531-532 and the same for slots 1 to 3).                                 *)

(* searchInto returns res *)
readerDone(rd, res) ==
  [rd EXCEPT !.pc = "done", !.ret = res.ret, !.out = res.out, !.pool = res.pool]

(* A step of the reader: the reader after it and the engine's scratch      *)
(* fields after it                                                         *)
ReaderStep(rd, ecur, ecap) == [rd |-> rd, execCursor |-> ecur, execCap |-> ecap]

(* The end of an iteration that tried the param variants (tr is their      *)
(* result): the program of a slot matched and left its cursor and capture  *)
(* count in the engine, or the search returns through the wildcard edge or *)
(* with false                                                              *)
readerAfterParams(E, rd, tr) ==
  IF tr.ok
    THEN ReaderStep([rd EXCEPT !.pc = "read", !.slot = tr.slot, !.pool = tr.pool],
                    tr.cursor, tr.cap)
    ELSE ReaderStep(readerDone(rd, searchAfterParams(E, rd.path, rd.out, rd.node,
                                                     rd.cursor, rd.cap, E.execCursor,
                                                     E.execCap,
                                                     [fuel |-> 1, trace |-> <<>>], tr)),
                    E.execCursor, E.execCap)

(* One iteration of the main loop up to its continue, its return, or the   *)
(* return of the _execInstr call that matched. charCodeAt past the end of  *)
(* the path is NaN, for which the static branch is not taken.              *)
readerLoop(E, rd) ==
  IF rd.cursor = Len(rd.path)
    THEN ReaderStep(readerDone(rd, searchAtEnd(E, rd.out, rd.pool, rd.node, rd.cursor,
                                               rd.cap, E.execCursor, E.execCap,
                                               [fuel |-> 1, trace |-> <<>>])),
                    E.execCursor, E.execCap)
  ELSE IF rd.cursor < Len(rd.path)
          /\ staticNext(E, NodeAt(E, rd.node), CharAt(rd.path, rd.cursor)) # 0
    THEN ReaderStep([rd EXCEPT !.node = staticNext(E, NodeAt(E, rd.node),
                                                   CharAt(rd.path, rd.cursor)),
                               !.cursor = rd.cursor + 1],
                    E.execCursor, E.execCap)
  ELSE readerAfterParams(E, rd,
                         IF HasFlag(NodeAt(E, rd.node).flags, HAS_PARAM_EDGE)
                           THEN trySlots(E, NodeAt(E, rd.node), rd.path, rd.cursor,
                                         rd.pool, rd.cap, 0, <<>>)
                           ELSE NoSlots(rd.pool, rd.cursor, rd.cap))

(* The head of searchInto: the reset of out and the ASCII scan *)
Begin(r, path) ==
  /\ frozen
  /\ readers[r].pc = "idle"
  /\ readers' = [readers EXCEPT ![r] =
       IF ~assumeAscii /\ HasNonAscii(path)
         THEN [@ EXCEPT !.pc = "done", !.path = path, !.out = resetOut(@), !.ret = FALSE]
         ELSE [@ EXCEPT !.pc = "loop", !.path = path, !.out = resetOut(@),
                        !.node = 1, !.cursor = 0, !.cap = 0]]
  /\ UNCHANGED <<nodes, transitionsPool, transitionsCapNodes, values, instr,
                 literalPool, paramKeyPool, routeTemplateToNode, frozen, delim,
                 assumeAscii, execCursor, execCap, memoryPool, out, trace, last, nops,
                 machine, cache, history>>

(* r.rd is the reader after the step, r.execCursor and r.execCap the       *)
(* engine's scratch fields                                                 *)
Stepped(r, res) ==
  /\ readers' = [readers EXCEPT ![r] = res.rd]
  /\ execCursor' = res.execCursor
  /\ execCap' = res.execCap
  /\ UNCHANGED <<nodes, transitionsPool, transitionsCapNodes, values, instr,
                 literalPool, paramKeyPool, routeTemplateToNode, frozen, delim,
                 assumeAscii, memoryPool, out, trace, last, nops, machine, cache, history>>

LoopStep(r) ==
  /\ readers[r].pc = "loop"
  /\ Stepped(r, readerLoop(Engine, readers[r]))

(* cap = this._execCap; cursor = this._execCursor;                         *)
(* nodeIndex = node.paramChild<slot>; continue                             *)
ReadStep(r) ==
  /\ readers[r].pc = "read"
  /\ Stepped(r, ReaderStep([readers[r] EXCEPT
                              !.pc = "loop", !.cap = execCap, !.cursor = execCursor,
                              !.node = paramDest(NodeAt(Engine, readers[r].node),
                                                 readers[r].slot)],
                           execCursor, execCap))

NextReaders ==
  \/ \E t \in {TParam, TParamP, TDot} : ~frozen /\ Insert(t)
  \/ ~frozen /\ Finalize(TRUE, FALSE)
  \/ \E r \in Readers, path \in {PA, PAB, PAP, PADotB} : Begin(r, path)
  \/ \E r \in Readers : LoopStep(r)
  \/ \E r \in Readers : ReadStep(r)

SpecReaders == Init /\ [][NextReaders]_vars

---------------------------------------------------------------------------
(* The batch inserts next to the single calls *)

(* The longest batch *)
MaxBatch == 2

BatchTemplates == {TStatic, TParam, TParamY, TUnclosed}

Batches == UNION {[1..n -> BatchTemplates] : n \in 0..MaxBatch}

(* The entries of a batch of templates, each with the payload of this call *)
EntriesOf(ts) == [i \in 1..Len(ts) |-> <<ts[i], Payload(ts[i])>>]

InsertBatch(ts) ==
  /\ nops < MaxOps
  /\ Mutated("insertBatch", ts, insertBatch(Engine, EntriesOf(ts)))
  /\ nops' = nops + 1
  /\ UNCHANGED <<memoryPool, out, trace, readers, machine, cache, history>>

InsertBatchParallel(ts, n) ==
  /\ nops < MaxOps
  /\ Mutated("insertBatchParallel", ts,
             insertBatchParallel(Engine, ts, SubSeq(EntriesOf(ts), 1, n)))
  /\ nops' = nops + 1
  /\ UNCHANGED <<memoryPool, out, trace, readers, machine, cache, history>>

InsertBatchFromObject(ts) ==
  /\ nops < MaxOps
  /\ \A i, j \in DOMAIN ts : ts[i] = ts[j] => i = j
  /\ Mutated("insertBatchFromObject", ts, insertBatchFromObject(Engine, EntriesOf(ts)))
  /\ nops' = nops + 1
  /\ UNCHANGED <<memoryPool, out, trace, readers, machine, cache, history>>

NextBatch ==
  \/ \E t \in BatchTemplates : Insert(t)
  \/ \E t \in BatchTemplates : Delete(t)
  \/ \E freeze, dropInternMap \in BOOLEAN : Finalize(freeze, dropInternMap)
  \/ \E ts \in Batches : InsertBatch(ts)
  \/ \E ts \in Batches, n \in 0..MaxBatch : n <= Len(ts) /\ InsertBatchParallel(ts, n)
  \/ \E ts \in Batches : InsertBatchFromObject(ts)

SpecBatch == Init /\ [][NextBatch]_vars

---------------------------------------------------------------------------
(* Inserts of malformed templates, next to the param variants of one node  *)
(* and finalize({freeze: true})                                            *)

(* One template of every malformed kind: empty, no leading delimiter, a    *)
(* star that is not last, a star not after the delimiter, an unclosed      *)
(* brace (before and within a name), an empty name, a name with a byte     *)
(* outside [A-Za-z0-9_], a repeated name, adjacent parameters, a stray     *)
(* closing brace (in a static run, after a parameter, after a well-formed  *)
(* parameter segment), a trailing backslash.                               *)
MalformedTemplates ==
  {Str(<<>>),
   Str(<<"b">>),
   Str(<<"/", "*", "b">>),
   Str(<<"/", "b", "*">>),
   TUnclosed,
   Str(<<"/", "{", "x">>),
   Str(<<"/", "{", "}">>),
   Str(<<"/", "{", "a", "-", "b", "}">>),
   Str(<<"/", "{", "a", "}", "/", "{", "a", "}">>),
   Str(<<"/", "{", "a", "}", "{", "b", "}">>),
   Str(<<"/", "b", "}">>),
   Str(<<"/", "{", "a", "}", "}">>),
   Str(<<"/", "{", "a", "}", "q", "/", "}">>),
   Str(<<"/", "b", "\\">>)}

(* The malformed inserts are the last two calls of a run *)
InsertMalformed(t) ==
  /\ nops + 2 >= MaxInserts
  /\ InsertVariant(t)

NextMalformed ==
  \/ \E t \in {TParam, TDot, TDash, TLitY} : InsertVariant(t)
  \/ \E t \in MalformedTemplates : InsertMalformed(t)
  \/ Finalize(TRUE, FALSE)

SpecMalformed == Init /\ [][NextMalformed]_vars

---------------------------------------------------------------------------
(* The constructor with a delimiter option *)

DELIM_COLON == 58
DELIM_PIPE == 124

(* isAllowedDelimiterAscii(cc) *)
isAllowedDelimiterAscii(cc) == cc \in {ASCII_SLASH, DELIM_COLON, DELIM_PIPE}

(* new RadixEngine({delimiter, assumeAscii}): [E, err]. delimiter is        *)
(* Undefined when the option is absent. charCodeAt(0) of the empty string  *)
(* is NaN, and (NaN & 0x7f) !== NaN. When the constructor throws, E is the *)
(* object as the throw leaves it, which no caller receives.                *)
construct(delimiter, ascii) ==
  LET d == IF delimiter = Undefined THEN <<ASCII_SLASH>> ELSE delimiter[1]
  IN IF Len(d) = 0 \/ Low7(CharAt(d, 0)) # CharAt(d, 0)
       THEN [E |-> NewEngine(0, ascii), err |-> "DelimiterNotAscii"]
     ELSE IF ~isAllowedDelimiterAscii(CharAt(d, 0))
       THEN [E |-> NewEngine(0, ascii), err |-> "DelimiterNotAllowed"]
     ELSE [E |-> NewEngine(Low7(CharAt(d, 0)), ascii), err |-> ""]

(* The delimiter options the constructor is called with *)
DelimiterOptions ==
  {Undefined, Some(Str(<<"/">>)), Some(Str(<<":">>)), Some(Str(<<"|">>)),
   Some(Str(<<".">>)), Some(Str(<<"a">>)), Some(Str(<<"A'">>)), Some(Str(<<>>)),
   Some(Str(<<"/", "x">>)), Some(Str(<<":", ":">>)), Some(Str(<<"a", "/">>))}

(* The constructor returned r for the option delimiter *)
Constructs(delimiter, r) ==
  /\ nodes = r.E.nodes
  /\ transitionsPool = r.E.transitionsPool
  /\ transitionsCapNodes = r.E.transitionsCapNodes
  /\ values = r.E.values
  /\ instr = r.E.instr
  /\ literalPool = r.E.literalPool
  /\ paramKeyPool = r.E.paramKeyPool
  /\ routeTemplateToNode = r.E.routeTemplateToNode
  /\ frozen = r.E.frozen
  /\ delim = r.E.delim
  /\ assumeAscii = r.E.assumeAscii
  /\ execCursor = r.E.execCursor
  /\ execCap = r.E.execCap
  /\ last = [op |-> "new", arg |-> delimiter, err |-> r.err, ret |-> FALSE,
             returned |-> r.err = ""]

InitDelim ==
  /\ \E delimiter \in DelimiterOptions, ascii \in BOOLEAN :
       Constructs(delimiter, construct(delimiter, ascii))
  /\ memoryPool = FreshPool
  /\ out = EmptyOut
  /\ readers = [r \in Readers |-> IdleReader]
  /\ machine = Undefined
  /\ cache = Undefined
  /\ history = <<>>
  /\ trace = <<>>
  /\ nops = 0

(* No call can be made on an engine whose constructor threw *)
NextDelim ==
  \/ \E t \in {<<delim, Ord["b"]>>, <<delim, Ord["{"], Ord["x"], Ord["}"]>>} :
       (last.op = "new" => last.returned) /\ Insert(t)
  \/ \E t \in {<<delim, Ord["b"]>>} :
       (last.op = "new" => last.returned) /\ Delete(t)
  \/ \E path \in {<<delim, Ord["b"]>>, <<delim, Ord["a"]>>, PB} :
       (last.op = "new" => last.returned) /\ Search(path)

SpecDelim == InitDelim /\ [][NextDelim]_vars

---------------------------------------------------------------------------
---------------------------------------------------------------------------
(* The constructor with a nodePoolSizeHint option, and templates that      *)
(* together have enough nodes for the transitions buffer to grow           *)

(* The hints the constructor is called with: Undefined when the option is  *)
(* absent                                                                  *)
Hints == {Undefined, Some(0), Some(-3), Some(17), Some(18)}

(* The delimiter, then c, then n times b *)
LongTemplate(c, n) == <<ASCII_SLASH>> \o c \o [k \in 1..n |-> Ord["b"]]

TB7 == LongTemplate(<<>>, 7)
TA7 == LongTemplate(<<Ord["a"]>>, 6)
TP7 == LongTemplate(<<Ord["p"]>>, 6)

GrowTemplates == {TB7, TA7, TP7, TParam, TWild}
GrowPaths == {TB7, TA7, TP7, PA, PRoot}

InitGrow ==
  /\ \E hint \in Hints, ascii \in BOOLEAN :
       Constructs(hint, [E |-> NewEngineWithHint(ASCII_SLASH, ascii, hint),
                         err |-> ""])
  /\ memoryPool = FreshPool
  /\ out = EmptyOut
  /\ readers = [r \in Readers |-> IdleReader]
  /\ machine = Undefined
  /\ cache = Undefined
  /\ history = <<>>
  /\ trace = <<>>
  /\ nops = 0

NextGrow ==
  \/ \E t \in GrowTemplates : Insert(t)
  \/ \E t \in GrowTemplates : Delete(t)
  \/ \E path \in GrowPaths : Search(path)

SpecGrow == InitGrow /\ [][NextGrow]_vars

---------------------------------------------------------------------------
(* LRUCache: a Map from key to list node and a doubly linked list from the *)
(* most recently used node (head) to the least recently used (tail).       *)
(* A node is its index in heap, the nodes created so far; a link is        *)
(* Undefined (null) or Some(index).                                        *)

(* Bounds of the cache runs *)
MaxCapacity == 2
MaxCacheOps == 5

CacheKeys == {"k1", "k2", "k3"}

(* new LRUCache(capacity) *)
NewCache(capacity) ==
  [cache |-> <<>>, heap |-> <<>>, head |-> Undefined, tail |-> Undefined,
   capacity |-> capacity]

(* A moveToFront that leaves the list as it is *)
moveToFrontNever(C, node) == C

(* removeNode(node) *)
removeNode(C, node) ==
  LET n == C.heap[node]
      h1 == IF n.prev # Undefined THEN [C.heap EXCEPT ![n.prev[1]].next = n.next]
            ELSE C.heap
      h2 == IF n.next # Undefined THEN [h1 EXCEPT ![n.next[1]].prev = n.prev] ELSE h1
  IN [C EXCEPT !.heap = h2,
               !.head = IF Some(node) = C.head THEN n.next ELSE @,
               !.tail = IF Some(node) = C.tail THEN n.prev ELSE @]

(* addToFront(node) *)
addToFront(C, node) ==
  LET h1 == [C.heap EXCEPT ![node].next = C.head, ![node].prev = Undefined]
      h2 == IF C.head # Undefined THEN [h1 EXCEPT ![C.head[1]].prev = Some(node)] ELSE h1
  IN [C EXCEPT !.heap = h2, !.head = Some(node),
               !.tail = IF C.tail = Undefined THEN Some(node) ELSE @]

(* moveToFront(node) *)
moveToFront(C, node) ==
  IF Some(node) = C.head THEN C ELSE addToFront(removeNode(C, node), node)

(* get(key): [C, ret], ret Undefined for null *)
get(C, key) ==
  IF key \notin DOMAIN C.cache THEN [C |-> C, ret |-> Undefined]
  ELSE [C |-> moveToFront(C, C.cache[key]), ret |-> C.heap[C.cache[key]].value]

(* set(key, value) *)
set(C, key, value) ==
  IF key \in DOMAIN C.cache
    THEN moveToFront([C EXCEPT !.heap[C.cache[key]].value = value], C.cache[key])
    ELSE LET node == Len(C.heap) + 1
             C1 == [C EXCEPT !.heap = Append(@, [key |-> key, value |-> value,
                                                 prev |-> Undefined, next |-> Undefined])]
             C2 == IF Cardinality(DOMAIN C1.cache) >= C1.capacity /\ C1.tail # Undefined
                     THEN removeNode([C1 EXCEPT !.cache =
                                        MapRemove(@, C1.heap[C1.tail[1]].key)],
                                     C1.tail[1])
                     ELSE C1
         IN addToFront([C2 EXCEPT !.cache = (key :> node) @@ @], node)

(* clear() *)
clear(C) == [C EXCEPT !.cache = <<>>, !.head = Undefined, !.tail = Undefined]

(* size *)
size(C) == Cardinality(DOMAIN C.cache)

(* The calls on one cache. history records, for every key, the number of   *)
(* the call that last hit or set it.                                       *)
CacheCalled(op, key, C, ret, hit) ==
  /\ nops < MaxCacheOps
  /\ cache' = C
  /\ history' = IF hit THEN (key :> nops + 1) @@ history ELSE history
  /\ last' = [op |-> op, arg |-> key, err |-> "", ret |-> ret, returned |-> TRUE]
  /\ nops' = nops + 1
  /\ UNCHANGED <<nodes, transitionsPool, transitionsCapNodes, values, instr,
                 literalPool, paramKeyPool, routeTemplateToNode, frozen, delim,
                 assumeAscii, execCursor, execCap, memoryPool, out, trace, readers,
                 machine>>

CacheGet(key) ==
  CacheCalled("cache.get", key, get(cache, key).C, get(cache, key).ret,
              key \in DOMAIN cache.cache)

CacheSet(key) == CacheCalled("cache.set", key, set(cache, key, <<key, nops>>), Undefined, TRUE)

CacheClear == CacheCalled("cache.clear", "", clear(cache), Undefined, FALSE)

InitCache ==
  /\ Constructs(Undefined, construct(Undefined, FALSE))
  /\ memoryPool = FreshPool
  /\ out = EmptyOut
  /\ readers = [r \in Readers |-> IdleReader]
  /\ trace = <<>>
  /\ nops = 0
  /\ machine = Undefined
  /\ \E capacity \in 1..MaxCapacity : cache = NewCache(capacity)
  /\ history = <<>>

NextCache ==
  \/ \E key \in CacheKeys : CacheGet(key)
  \/ \E key \in CacheKeys : CacheSet(key)
  \/ CacheClear

SpecCache == InitCache /\ [][NextCache]_vars

---------------------------------------------------------------------------
(* PatternMachine: a radix tree of RadixNode objects. A node is its index  *)
(* in machine.nodes, the root is node 1 and 0 is null; staticChildren is   *)
(* the Map from the first character of a child's part to the child.        *)

DefaultMaxParamLength == 1024
DefaultExecutionLimit == 10000

(* new RadixNode(part, type, paramName) *)
NewRadixNode(part, type, paramName) ==
  [part |-> part, type |-> type, paramName |-> paramName, staticChildren |-> <<>>,
   paramChild |-> 0, wildcardChild |-> 0, wildcardRecursiveChild |-> 0,
   endData |-> <<>>]

(* new PatternMachine(config): an option that is absent is Undefined *)
NewMachine(config) ==
  [config |-> [f \in DOMAIN config |->
                 IF config[f] # Undefined THEN config[f][1]
                 ELSE CASE f = "delimiter" -> Str(<<"/">>)
                        [] f = "maxParamLength" -> DefaultMaxParamLength
                        [] f = "executionLimit" -> DefaultExecutionLimit
                        [] OTHER -> TRUE],
   nodes |-> <<NewRadixNode(<<>>, "STATIC", Undefined)>>]

(* s.indexOf(d, from): the first index at or after from where d occurs in  *)
(* s, -1 when there is none (indices from 0)                               *)
IndexOf(s, d, from) ==
  LET at == {i \in from..(Len(s) - Len(d)) : SubSeq(s, i + 1, i + Len(d)) = d}
  IN IF at = {} THEN -1 ELSE CHOOSE i \in at : \A j \in at : i <= j

(* s.split(dd).join(d) *)
RECURSIVE splitJoin(_, _, _)
splitJoin(s, dd, d) ==
  IF IndexOf(s, dd, 0) = -1 THEN s
  ELSE SubSeq(s, 1, IndexOf(s, dd, 0)) \o d
       \o splitJoin(SubSeq(s, IndexOf(s, dd, 0) + Len(dd) + 1, Len(s)), dd, d)

(* while (result.includes(d + d)) result = result.split(d + d).join(d) *)
RECURSIVE collapseDelimiters(_, _)
collapseDelimiters(s, d) ==
  IF IndexOf(s, d \o d, 0) = -1 THEN s ELSE collapseDelimiters(splitJoin(s, d \o d, d), d)

(* normalizeInput(input, config): [returned, value]. With the empty        *)
(* delimiter result.includes("") holds of every string and the split and   *)
(* join give the string back, so the loop never ends and the call does not *)
(* return. toLowerCase is modelled for the ASCII letters.                  *)
normalizeInput(input, config) ==
  LET lower == IF ~config.caseSensitive
                 THEN [k \in DOMAIN input |->
                         IF input[k] \in 65..90 THEN input[k] + 32 ELSE input[k]]
                 ELSE input
      single == IF config.ignoreDuplicateDelimiter
                  THEN collapseDelimiters(lower, config.delimiter)
                  ELSE lower
      d == config.delimiter
  IN IF config.ignoreDuplicateDelimiter /\ d = <<>>
       THEN [returned |-> FALSE, value |-> input]
     ELSE IF /\ config.ignoreTrailingDelimiter
             /\ Len(single) > 1
             /\ SubSeq(single, Len(single) - Len(d) + 1, Len(single)) = d
       THEN [returned |-> TRUE, value |-> SubSeq(single, 1, Len(single) - 1)]
     ELSE [returned |-> TRUE, value |-> single]

(* getCommonPrefixLength(s1, s2) *)
getCommonPrefixLength(s1, s2) ==
  Cardinality({i \in 1..Min({Len(s1), Len(s2)}) :
                 \A j \in 1..i : s1[j] = s2[j]})

(* tokenize(pattern) from index i (from 1) with the buffer and the tokens  *)
(* so far                                                                  *)
RECURSIVE tokenizeFrom(_, _, _, _)
tokenizeFrom(pattern, i, buffer, tokens) ==
  LET flushed == IF buffer # <<>>
                   THEN Append(tokens, [type |-> "STATIC", value |-> buffer])
                   ELSE tokens
      closing == {j \in (i + 1)..Len(pattern) : pattern[j] = ASCII_RBRACE}
      close == IF closing = {} THEN Len(pattern) + 1
               ELSE CHOOSE j \in closing : \A k \in closing : j <= k
  IN IF i > Len(pattern) THEN flushed
     ELSE IF pattern[i] = ASCII_LBRACE
       THEN tokenizeFrom(pattern, close + 1, <<>>,
                         Append(flushed, [type |-> "PARAM",
                                          value |-> SubSeq(pattern, i + 1, close - 1)]))
     ELSE IF pattern[i] = ASCII_STAR
       THEN IF i + 1 <= Len(pattern) /\ pattern[i + 1] = ASCII_STAR
              THEN tokenizeFrom(pattern, i + 2, <<>>,
                                Append(flushed, [type |-> "WILDCARD_RECURSIVE",
                                                 value |-> <<ASCII_STAR, ASCII_STAR>>]))
              ELSE tokenizeFrom(pattern, i + 1, <<>>,
                                Append(flushed, [type |-> "WILDCARD",
                                                 value |-> <<ASCII_STAR>>]))
     ELSE tokenizeFrom(pattern, i + 1, Append(buffer, pattern[i]), tokens)

(* tokenize(pattern) *)
tokenize(pattern) == tokenizeFrom(pattern, 1, <<>>, <<>>)

(* insert, Case 2 (partial match): the edge e of node k is replaced by a   *)
(* split node holding the common part, whose one child takes over the      *)
(* edge's staticChildren, paramChild, wildcardChild and endData; the       *)
(* edge's wildcardRecursiveChild is not moved.                             *)
splitEdge(N, k, e, commonLen) ==
  Append(Append([N EXCEPT ![k].staticChildren = (N[e].part[1] :> Len(N) + 1) @@ @],
                [NewRadixNode(SubSeq(N[e].part, 1, commonLen), "STATIC", Undefined)
                   EXCEPT !.staticChildren = N[e].part[commonLen + 1] :> Len(N) + 2]),
         [NewRadixNode(SubSeq(N[e].part, commonLen + 1, Len(N[e].part)),
                       "STATIC", Undefined)
            EXCEPT !.staticChildren = N[e].staticChildren,
                   !.paramChild = N[e].paramChild,
                   !.wildcardChild = N[e].wildcardChild,
                   !.endData = N[e].endData])

(* insert(node, tokens, data) on the nodes N at node k: [nodes, err] *)
RECURSIVE machineInsert(_, _, _, _)
machineInsert(N, k, tokens, data) ==
  IF tokens = <<>>
    THEN [nodes |-> [N EXCEPT ![k].endData = Append(@, data)], err |-> ""]
  ELSE IF tokens[1].type = "WILDCARD_RECURSIVE"
    THEN IF N[k].wildcardRecursiveChild = 0
           THEN machineInsert(Append([N EXCEPT ![k].wildcardRecursiveChild = Len(N) + 1],
                                     NewRadixNode(<<>>, "WILDCARD_RECURSIVE", Undefined)),
                              Len(N) + 1, Tail(tokens), data)
           ELSE machineInsert(N, N[k].wildcardRecursiveChild, Tail(tokens), data)
  ELSE IF tokens[1].type = "PARAM"
    THEN IF N[k].paramChild = 0
           THEN machineInsert(Append([N EXCEPT ![k].paramChild = Len(N) + 1],
                                     NewRadixNode(<<>>, "PARAM", tokens[1].value)),
                              Len(N) + 1, Tail(tokens), data)
           ELSE machineInsert(N, N[k].paramChild, Tail(tokens), data)
  ELSE IF tokens[1].type = "WILDCARD"
    THEN IF N[k].wildcardChild = 0
           THEN machineInsert(Append([N EXCEPT ![k].wildcardChild = Len(N) + 1],
                                     NewRadixNode(<<>>, "WILDCARD", Undefined)),
                              Len(N) + 1, Tail(tokens), data)
           ELSE machineInsert(N, N[k].wildcardChild, Tail(tokens), data)
  ELSE IF tokens[1].value = <<>>
    THEN [nodes |-> N, err |-> "Token value cannot be empty"]
  ELSE IF tokens[1].value[1] \in DOMAIN N[k].staticChildren
    THEN LET e == N[k].staticChildren[tokens[1].value[1]]
             value == tokens[1].value
             commonLen == getCommonPrefixLength(N[e].part, tokens[1].value)
             rest == IF commonLen < Len(value)
                       THEN <<[tokens[1] EXCEPT
                                 !.value = SubSeq(value, commonLen + 1, Len(value))]>>
                            \o Tail(tokens)
                       ELSE Tail(tokens)
         IN IF commonLen < Len(N[e].part)
              THEN machineInsert(splitEdge(N, k, e, commonLen), Len(N) + 1, rest, data)
              ELSE machineInsert(N, e, rest, data)
  ELSE machineInsert(Append([N EXCEPT ![k].staticChildren =
                                        (tokens[1].value[1] :> Len(N) + 1) @@ @],
                            NewRadixNode(tokens[1].value, "STATIC", Undefined)),
                     Len(N) + 1, Tail(tokens), data)

(* add(pattern, data): [M, returned, err] *)
add(M, pattern, data) ==
  IF ~normalizeInput(pattern, M.config).returned
    THEN [M |-> M, returned |-> FALSE, err |-> ""]
    ELSE [M |-> [M EXCEPT !.nodes =
                   machineInsert(M.nodes, 1,
                                 tokenize(normalizeInput(pattern, M.config).value),
                                 data).nodes],
          returned |-> TRUE,
          err |-> machineInsert(M.nodes, 1,
                                tokenize(normalizeInput(pattern, M.config).value),
                                data).err]

(* buildResult(dataList, paramList): the list is walked from the newest    *)
(* capture to the oldest and each assignment overwrites, so a name keeps   *)
(* its oldest value; the data is the first of the node's endData.          *)
buildResult(dataList, paramList) ==
  [params |-> [key \in {paramList[i].key : i \in DOMAIN paramList} |->
                 paramList[CHOOSE i \in DOMAIN paramList :
                             /\ paramList[i].key = key
                             /\ \A j \in DOMAIN paramList :
                                  paramList[j].key = key => j <= i].value],
   data |-> dataList[1]]

(* normalizedInput.startsWith(part, cursor) *)
startsWith(s, part, cursor) ==
  /\ cursor + Len(part) <= Len(s)
  /\ SubSeq(s, cursor + 1, cursor + Len(part)) = part

(* indexOf(delim, cursor), replaced by the length when there is none *)
nextDelimOrEnd(s, d, cursor) ==
  IF IndexOf(s, d, cursor) = -1 THEN Len(s) ELSE IndexOf(s, d, cursor)

(* The frames one iteration of match's loop pushes for the frame it        *)
(* popped, in the order of the pushes: the self-loop of a recursive node,  *)
(* the static child, the wildcard child, the param child, the recursive    *)
(* child. params is the linked list, newest capture first.                 *)
pushes(M, s, frame) ==
  LET node == M.nodes[frame.node]
      cursor == frame.cursor
      d == M.config.delimiter
  IN (IF node.type = "WILDCARD_RECURSIVE"
        THEN IF IndexOf(s, d, cursor) # -1
               THEN <<[frame EXCEPT !.cursor = IndexOf(s, d, cursor) + Len(d)]>>
             ELSE IF cursor < Len(s)
               THEN <<[frame EXCEPT !.cursor = Len(s)]>>
             ELSE <<>>
        ELSE <<>>)
     \o (IF /\ cursor < Len(s)
            /\ s[cursor + 1] \in DOMAIN node.staticChildren
            /\ startsWith(s, M.nodes[node.staticChildren[s[cursor + 1]]].part, cursor)
           THEN <<[node |-> node.staticChildren[s[cursor + 1]],
                   cursor |-> cursor
                              + Len(M.nodes[node.staticChildren[s[cursor + 1]]].part),
                   params |-> frame.params]>>
           ELSE <<>>)
     \o (IF node.wildcardChild # 0
           THEN <<[node |-> node.wildcardChild,
                   cursor |-> nextDelimOrEnd(s, d, cursor),
                   params |-> frame.params]>>
           ELSE <<>>)
     \o (IF /\ node.paramChild # 0
            /\ nextDelimOrEnd(s, d, cursor) - cursor <= M.config.maxParamLength
           THEN <<[node |-> node.paramChild,
                   cursor |-> nextDelimOrEnd(s, d, cursor),
                   params |-> <<[key |-> M.nodes[node.paramChild].paramName,
                                 value |-> SubSeq(s, cursor + 1,
                                                  nextDelimOrEnd(s, d, cursor))]>>
                              \o frame.params]>>
           ELSE <<>>)
     \o (IF node.wildcardRecursiveChild # 0
           THEN <<[node |-> node.wildcardRecursiveChild,
                   cursor |-> cursor,
                   params |-> frame.params]>>
           ELSE <<>>)

(* match's loop on the normalized input s: the top of the stack is its     *)
(* last element, steps counts the frames popped so far. Returns the        *)
(* results and the number of frames popped.                                *)
RECURSIVE matchLoop(_, _, _, _, _)
matchLoop(M, s, stack, steps, results) ==
  IF stack = <<>> \/ steps + 1 > M.config.executionLimit
    THEN [returned |-> TRUE, results |-> results, pops |-> steps]
    ELSE matchLoop(M, s,
                   SubSeq(stack, 1, Len(stack) - 1) \o pushes(M, s, stack[Len(stack)]),
                   steps + 1,
                   IF /\ stack[Len(stack)].cursor >= Len(s)
                      /\ M.nodes[stack[Len(stack)].node].endData # <<>>
                     THEN Append(results,
                                 buildResult(M.nodes[stack[Len(stack)].node].endData,
                                             stack[Len(stack)].params))
                     ELSE results)

(* match(input): [returned, results, pops] *)
machineMatch(M, input) ==
  IF ~normalizeInput(input, M.config).returned
    THEN [returned |-> FALSE, results |-> <<>>, pops |-> 0]
    ELSE matchLoop(M, normalizeInput(input, M.config).value,
                   <<[node |-> 1, cursor |-> 0, params |-> <<>>]>>, 0, <<>>)

(* serializeNode without the wildcardRecursiveChild *)
RECURSIVE serializeNodeNoRecursive(_, _)
serializeNodeNoRecursive(N, k) ==
  [part |-> N[k].part,
   type |-> N[k].type,
   paramName |-> N[k].paramName,
   staticChildren |-> [c \in DOMAIN N[k].staticChildren |->
                         serializeNodeNoRecursive(N, N[k].staticChildren[c])],
   paramChild |-> IF N[k].paramChild = 0 THEN Undefined
                  ELSE Some(serializeNodeNoRecursive(N, N[k].paramChild)),
   wildcardChild |-> IF N[k].wildcardChild = 0 THEN Undefined
                     ELSE Some(serializeNodeNoRecursive(N, N[k].wildcardChild)),
   wildcardRecursiveChild |-> Undefined,
   endData |-> N[k].endData]

(* serializeNode(node): the plain object; null is Undefined *)
RECURSIVE serializeNode(_, _)
serializeNode(N, k) ==
  [part |-> N[k].part,
   type |-> N[k].type,
   paramName |-> N[k].paramName,
   staticChildren |-> [c \in DOMAIN N[k].staticChildren |->
                         serializeNode(N, N[k].staticChildren[c])],
   paramChild |-> IF N[k].paramChild = 0 THEN Undefined
                  ELSE Some(serializeNode(N, N[k].paramChild)),
   wildcardChild |-> IF N[k].wildcardChild = 0 THEN Undefined
                     ELSE Some(serializeNode(N, N[k].wildcardChild)),
   wildcardRecursiveChild |-> IF N[k].wildcardRecursiveChild = 0 THEN Undefined
                              ELSE Some(serializeNode(N, N[k].wildcardRecursiveChild)),
   endData |-> N[k].endData]

(* toJSON() *)
toJSON(M) == [config |-> M.config, root |-> serializeNode(M.nodes, 1)]

(* deserializeNode(data) appends the node and the nodes below it to N and  *)
(* returns the nodes; the node itself is at Len(N) + 1. The keys of the    *)
(* object are taken in ascending order.                                    *)
RECURSIVE deserializeNode(_, _)
RECURSIVE deserializeStatic(_, _, _, _)
RECURSIVE deserializeChild(_, _, _, _)
deserializeStatic(data, k, keys, N) ==
  IF keys = {} THEN N
  ELSE deserializeStatic(data, k, keys \ {Min(keys)},
                         deserializeNode(data.staticChildren[Min(keys)],
                                         [N EXCEPT ![k].staticChildren =
                                            (Min(keys) :> Len(N) + 1) @@ @]))

deserializeChild(data, k, field, N) ==
  IF data[field] = Undefined THEN N
  ELSE deserializeNode(data[field][1], [N EXCEPT ![k][field] = Len(N) + 1])

deserializeNode(data, N) ==
  deserializeChild(data, Len(N) + 1, "wildcardRecursiveChild",
    deserializeChild(data, Len(N) + 1, "wildcardChild",
      deserializeChild(data, Len(N) + 1, "paramChild",
        deserializeStatic(data, Len(N) + 1, DOMAIN data.staticChildren,
                          Append(N, [NewRadixNode(data.part, data.type, data.paramName)
                                       EXCEPT !.endData = data.endData])))))

(* fromJSON(json) *)
fromJSON(json) ==
  [config |-> NewMachine([f \in DOMAIN json.config |-> Some(json.config[f])]).config,
   nodes |-> deserializeNode(json.root, <<>>)]

---------------------------------------------------------------------------
(* A program that builds one PatternMachine, adds patterns, matches inputs *)
(* and replaces the machine by fromJSON(toJSON(machine)). history is the   *)
(* sequence of the patterns added, each with its data. A call that does    *)
(* not return leaves the program inside it.                                *)

MaxMachineOps == 3

MachineOptions(delimiter, executionLimit, flags) ==
  [delimiter |-> delimiter, ignoreTrailingDelimiter |-> flags,
   ignoreDuplicateDelimiter |-> flags, maxParamLength |-> Undefined,
   caseSensitive |-> flags, executionLimit |-> executionLimit]

MachineConfigs ==
  {MachineOptions(Undefined, Undefined, Undefined),
   MachineOptions(Undefined, Some(2), Undefined),
   MachineOptions(Some(Str(<<".">>)), Undefined, Undefined),
   MachineOptions(Some(Str(<<>>)), Undefined, Undefined),
   MachineOptions(Undefined, Undefined, Some(FALSE))}

Patterns ==
  {Str(<<"a", "/", "b">>), Str(<<"a", "/", "{", "x", "}">>),
   Str(<<"a", "/", "{", "y", "}">>), Str(<<"a", "/", "*">>),
   Str(<<"a", "/", "*", "*">>), Str(<<"a", "b">>),
   Str(<<"a", "/", "b", "/", "c">>), Str(<<"a", ".", "{", "x", "}">>)}

Inputs ==
  {Str(<<"a", "/", "b">>), Str(<<"a", "/", "c">>), Str(<<"a", "/", "b", "/", "c">>),
   Str(<<"a", "b">>), Str(<<"a", "/", "/", "b">>), Str(<<"a", "/", "b", "/">>),
   Str(<<"A", "/", "b">>), Str(<<"a", ".", "b">>), Str(<<>>)}

MachineCalled(op, arg, M, H, err, ret, returned) ==
  /\ machine # Undefined
  /\ nops < MaxMachineOps
  /\ last.returned
  /\ machine' = M
  /\ history' = H
  /\ last' = [op |-> op, arg |-> arg, err |-> err, ret |-> ret, returned |-> returned]
  /\ nops' = nops + 1
  /\ UNCHANGED <<nodes, transitionsPool, transitionsCapNodes, values, instr,
                 literalPool, paramKeyPool, routeTemplateToNode, frozen, delim,
                 assumeAscii, execCursor, execCap, memoryPool, out, trace, readers,
                 cache>>

Added(pattern, r) ==
  MachineCalled("add", pattern, r.M,
                IF r.returned /\ r.err = ""
                  THEN Append(history, [pattern |-> pattern, data |-> Payload(pattern)])
                  ELSE history,
                r.err, Undefined, r.returned)

Add(pattern) == Added(pattern, add(machine, pattern, Payload(pattern)))

Matched(input, r) ==
  MachineCalled("match", input, machine, history, "", r, r.returned)

Match(input) == Matched(input, machineMatch(machine, input))

Thaw ==
  MachineCalled("fromJSON", Undefined, fromJSON(toJSON(machine)), history, "",
                Undefined, TRUE)

InitMachine ==
  /\ Constructs(Undefined, construct(Undefined, FALSE))
  /\ memoryPool = FreshPool
  /\ out = EmptyOut
  /\ readers = [r \in Readers |-> IdleReader]
  /\ trace = <<>>
  /\ nops = 0
  /\ cache = Undefined
  /\ history = <<>>
  /\ \E config \in MachineConfigs : machine = NewMachine(config)

NextMachine ==
  \/ \E pattern \in Patterns : Add(pattern)
  \/ \E input \in Inputs : Match(input)
  \/ Thaw

SpecMachine == InitMachine /\ [][NextMachine]_vars

---------------------------------------------------------------------------

(* What the claims speak of *)

(* The template is live: inserted and not deleted since *)
Live(t) == HasInternMap(Engine) /\ Interned(Engine, t)

(* The terminal node of a live template *)
TerminalOf(t) == routeTemplateToNode.map[t]

(* The last call was a search, so out, memoryPool and trace are its result *)
Searched == last.op = "search"

(* What a caller sees of a search of path p on engine E with a buffer of   *)
(* its own: the returned boolean, the result struct and the capture pairs  *)
(* the result counts.                                                      *)
SearchView(E, p) ==
  LET r == searchInto(E, p, FreshPool, EmptyOut)
  IN <<r.ret, r.out,
       IF r.out.found THEN SubSeq(r.pool, 1, 2 * r.out.paramCount[1]) ELSE <<>>>>

(* A static transition exists at the node for the code unit cc *)
StaticExists(node, cc) ==
  cc < TRANSITIONS_WIDTH /\ (node.transBase + cc) \in DOMAIN transitionsPool

(* The param slots the node holds *)
SlotCount(node) ==
  IF HasFlag(node.flags, HAS_PARAM_EDGE) THEN node.paramEdgeCount ELSE 0

---------------------------------------------------------------------------
(* C1. Edge priority. At every node a search reaches before the end of the *)
(* path: when a static transition exists for the current byte it is taken  *)
(* and no param program is run; param programs are run only when no static *)
(* transition exists; the wildcard edge is used only when no static        *)
(* transition exists and every param slot of the node has failed. With     *)
(* /{x} and /b both live, the search of /b returns the payload of /b with  *)
(* paramCount 0.                                                           *)
C1_EdgePriority ==
  Searched =>
    /\ \A k \in 1..Len(trace) :
         LET s == trace[k]
             node == nodes[s.node + 1]
         IN s.cursor < Len(last.arg) =>
              LET static == StaticExists(node, CharAt(last.arg, s.cursor))
              IN /\ static => (s.edge = "static" /\ s.execs = <<>>)
                 /\ (s.edge = "param" \/ s.execs # <<>>) => ~static
                 /\ s.edge = "wildcard" =>
                      /\ ~static
                      /\ Len(s.execs) = SlotCount(node)
                      /\ \A j \in 1..Len(s.execs) : ~s.execs[j].ok
    /\ (Live(TParam) /\ Live(TStatic) /\ last.arg = PB) =>
         /\ last.ret /\ out.found
         /\ out.nodeIndex = Some(TerminalOf(TStatic))
         /\ out.value[1][1] = TStatic
         /\ out.paramCount = Some(0)

(* /{x} and /b are live and /b has been searched *)
C1_Witness ==
  /\ Searched /\ last.arg = PB
  /\ Live(TParam) /\ Live(TStatic)
  /\ out.found /\ out.paramCount = Some(0)

---------------------------------------------------------------------------
(* The words of the program that starts at ip, each instruction read with  *)
(* its own width: one word for MATCH_LITERAL and END, two for the others.  *)
RECURSIVE ProgramWords(_, _)
ProgramWords(E, ip) ==
  LET w == InstrAt(E, ip)
  IN IF ip >= InstrLen(E) THEN <<>>
     ELSE IF OpOf(w) = OP_MATCH_LITERAL THEN <<w>> \o ProgramWords(E, ip + 1)
     ELSE IF OpOf(w) \in {OP_MATCH_LITERAL_SEQ, OP_CAPTURE_UNTIL}
       THEN <<w, InstrAt(E, ip + 1)>> \o ProgramWords(E, ip + 2)
     ELSE <<w>>

(* C2. Instruction identity. Two templates whose parameter segment at the  *)
(* same node compiles to the same program (same opcodes and operands)      *)
(* share one param slot: the second insert reuses the slot, so no node     *)
(* holds two slots with the same program.                                  *)
C2_SlotReuse ==
  \A k \in 1..Len(nodes) :
    \A i, j \in 0..(SlotCount(nodes[k]) - 1) :
      i # j => ProgramWords(Engine, getParamInstr(nodes[k], i))
                 # ProgramWords(Engine, getParamInstr(nodes[k], j))

---------------------------------------------------------------------------
(* C3. Delete leaves no trace for search. On an unfrozen engine with its   *)
(* intern map, for a template t that is not live and whose insert          *)
(* succeeds, insert(t) followed by delete(t) leaves every search result    *)
(* (returned boolean, result struct, captures) as it was before.           *)
C3_DeleteLeavesNoTrace ==
  (~frozen /\ HasInternMap(Engine)) =>
    \A t \in Templates :
      LET ins == insert(Engine, t, Payload(t))
      IN (~Interned(Engine, t) /\ ins.err = "") =>
           \A p \in Paths :
             SearchView(delete(ins.E, t).E, p) = SearchView(Engine, p)

(* C4. Failed inserts are atomic. When an insert fails, every search,      *)
(* isPrefix and prefixSearch afterwards returns what it returned before    *)
(* the insert was attempted.                                               *)
C4_FailedInsertAtomic ==
  [][(last'.op = "insert" /\ last'.err # "") =>
       \A p \in Paths :
         /\ SearchView(Engine', p) = SearchView(Engine, p)
         /\ isPrefix(Engine', p) = isPrefix(Engine, p)
         /\ prefixSearch(Engine', p) = prefixSearch(Engine, p)]_vars

---------------------------------------------------------------------------
(* Templates read as the specification reads them: a sequence of literal   *)
(* bytes, `{name}` parameters and a trailing `*`.                          *)

RECURSIVE CloseBrace(_, _)
CloseBrace(t, i) ==
  IF i >= Len(t) \/ CharAt(t, i) = ASCII_RBRACE THEN i ELSE CloseBrace(t, i + 1)

RECURSIVE Tokens(_, _)
Tokens(t, i) ==
  IF i >= Len(t) THEN <<>>
  ELSE LET cc == CharAt(t, i)
       IN IF cc = ASCII_BACKSLASH /\ i + 1 < Len(t)
            THEN <<[kind |-> "lit", text |-> <<CharAt(t, i + 1)>>]>> \o Tokens(t, i + 2)
          ELSE IF cc = ASCII_LBRACE
            THEN <<[kind |-> "param", text |-> Slice(t, i + 1, CloseBrace(t, i))]>>
                 \o Tokens(t, CloseBrace(t, i) + 1)
          ELSE IF cc = ASCII_STAR /\ i + 1 = Len(t)
            THEN <<[kind |-> "wild", text |-> <<>>]>>
          ELSE <<[kind |-> "lit", text |-> <<cc>>]>> \o Tokens(t, i + 1)

(* The names of the parameters of a template in declaration order *)
RECURSIVE NamesOf(_)
NamesOf(toks) ==
  IF toks = <<>> THEN <<>>
  ELSE (IF Head(toks).kind = "param" THEN <<Head(toks).text>> ELSE <<>>)
       \o NamesOf(Tail(toks))

ParamNames(t) == NamesOf(Tokens(t, 0))

(* The path a template stands for once its parameters are bound to vals    *)
(* and its wildcard to rest                                                *)
RECURSIVE RenderTokens(_, _, _)
RenderTokens(toks, vals, rest) ==
  IF toks = <<>> THEN <<>>
  ELSE LET h == Head(toks)
       IN IF h.kind = "param"
            THEN (IF vals = <<>> THEN <<>> ELSE Head(vals))
                 \o RenderTokens(Tail(toks), IF vals = <<>> THEN <<>> ELSE Tail(vals), rest)
          ELSE IF h.kind = "wild" THEN rest
          ELSE h.text \o RenderTokens(Tail(toks), vals, rest)

Render(t, vals, rest) == RenderTokens(Tokens(t, 0), vals, rest)

(* path.substring(a, b) *)
Substring(path, a, b) ==
  LET lo == IF a < b THEN a ELSE b
      hi == IF a < b THEN b ELSE a
      top == IF hi > Len(path) THEN Len(path) ELSE hi
      bot == IF lo > Len(path) THEN Len(path) ELSE lo
  IN Slice(path, bot, top)

(* The substrings the first n capture pairs of the buffer denote *)
CapturedValues(path, pool, n) ==
  [i \in 1..n |-> Substring(path, pool[2 * i - 1], pool[2 * i])]

(* The live templates whose terminal is the node *)
TemplatesAt(nodeIndex) ==
  {t \in DOMAIN routeTemplateToNode.map : routeTemplateToNode.map[t] = nodeIndex}

(* C5. Capture round trip. On every successful search the found node is   *)
(* the terminal of a live template; paramCount is the number of parameters *)
(* of that template, getParamKeysForNode gives their names in declaration  *)
(* order, and the template with its i-th parameter replaced by             *)
(* path[caps[2i] .. caps[2i+1]) (and its wildcard by the wildcard range)   *)
(* is the path.                                                            *)
C5_CaptureRoundTrip ==
  (Searched /\ last.ret /\ HasInternMap(Engine)) =>
    /\ TemplatesAt(out.nodeIndex[1]) # {}
    /\ \A t \in TemplatesAt(out.nodeIndex[1]) :
         /\ out.paramCount = Some(Len(ParamNames(t)))
         /\ getParamKeysForNode(Engine, out.nodeIndex[1]) = ParamNames(t)
         /\ out.paramCount[1] * 2 <= Len(memoryPool)
         /\ Render(t, CapturedValues(last.arg, memoryPool, out.paramCount[1]),
                   IF out.wildcardStart = Undefined THEN <<>>
                   ELSE Substring(last.arg, out.wildcardStart[1], out.wildcardEnd[1]))
              = last.arg

---------------------------------------------------------------------------
(* The capture pairs the last search reports, as (start, end) records *)
Caps ==
  [i \in 0..(out.paramCount[1] - 1) |->
     [start |-> memoryPool[2 * i + 1], end |-> memoryPool[2 * i + 2]]]

(* C6. Capture ranges are well formed. On every successful search, for     *)
(* every i < paramCount: 0 <= caps[2i] <= caps[2i+1] <= len(path), and     *)
(* caps[2i+1] <= caps[2i+2] for the next counted pair; also when earlier   *)
(* slots of a node failed before a later slot matched.                     *)
C6_CaptureRangesWellFormed ==
  (Searched /\ last.ret) =>
    /\ 2 * out.paramCount[1] <= Len(memoryPool)
    /\ \A i \in DOMAIN Caps :
         /\ 0 <= Caps[i].start
         /\ Caps[i].start <= Caps[i].end
         /\ Caps[i].end <= Len(last.arg)
         /\ (i + 1) \in DOMAIN Caps => Caps[i].end <= Caps[i + 1].start

---------------------------------------------------------------------------
(* C7. Frozen immutability is permanent. Once the engine is frozen it      *)
(* stays frozen whatever is called (finalize with freeze = false           *)
(* included), every insert and delete fails with Frozen, and every search  *)
(* returns what it returned before the call.                               *)
C7_FrozenPermanent ==
  [][frozen =>
       /\ frozen'
       /\ last'.op \in {"insert", "delete"} => last'.err = "Frozen"
       /\ \A p \in Paths : SearchView(Engine', p) = SearchView(Engine, p)]_vars

(* An insert was refused on a frozen engine that holds a route *)
C7_Witness ==
  /\ frozen
  /\ last.op = "insert" /\ last.err = "Frozen"
  /\ \E t \in Templates : Live(t)

---------------------------------------------------------------------------
(* The slots of a node whose program matches the path from the cursor,    *)
(* with cap captures written so far                                        *)
MatchingSlots(node, path, cursor, cap) ==
  {j \in 0..(SlotCount(node) - 1) :
     execInstr(Engine, getParamInstr(node, j), path, cursor, memoryPool, cap).ok}

(* The slots a node holds keep their program and destination, and a call   *)
(* adds at most one slot to a node, after the ones it holds.               *)
SlotsAppendOnly ==
  \A k \in 1..Len(nodes) :
    /\ SlotCount(nodes'[k]) >= SlotCount(nodes[k])
    /\ SlotCount(nodes'[k]) <= SlotCount(nodes[k]) + 1
    /\ \A j \in 0..(SlotCount(nodes[k]) - 1) :
         /\ getParamChild(nodes'[k], j) = getParamChild(nodes[k], j)
         /\ getParamInstr(nodes'[k], j) = getParamInstr(nodes[k], j)
         /\ ProgramWords(Engine', getParamInstr(nodes[k], j))
              = ProgramWords(Engine, getParamInstr(nodes[k], j))

(* C8. Param slot priority is insertion order. The variants of a node keep *)
(* the slots they were given when first inserted, later variants go after  *)
(* them, and a search that reaches the node with no static transition for  *)
(* the current byte descends through the destination of the lowest slot    *)
(* whose program matches the remaining input (none when no slot matches).  *)
C8_SlotPriority ==
  /\ [][SlotsAppendOnly]_vars
  /\ [](Searched =>
         \A k \in 1..Len(trace) :
           LET s == trace[k]
               node == nodes[s.node + 1]
               matching == MatchingSlots(node, last.arg, s.cursor, s.cap)
           IN (s.cursor < Len(last.arg)
                 /\ ~StaticExists(node, CharAt(last.arg, s.cursor))) =>
                IF matching = {} THEN s.edge \in {"wildcard", "none"}
                ELSE /\ s.edge = "param"
                     /\ s.slot = Min(matching)
                     /\ k < Len(trace)
                     /\ trace[k + 1].node = getParamChild(node, Min(matching)))

(* /{x} was inserted before /{n}.{e}, both programs match a.b, and the     *)
(* search of /a.b bound x to a.b                                           *)
C8_Witness ==
  /\ Searched /\ last.arg = PADotB /\ last.ret
  /\ Live(TParam) /\ Live(TDot)
  /\ out.nodeIndex = Some(TerminalOf(TParam))
  /\ memoryPool[1] = 1 /\ memoryPool[2] = 4
  /\ \E k \in 1..Len(trace) :
       /\ trace[k].edge = "param" /\ trace[k].slot = 0
       /\ MatchingSlots(nodes[trace[k].node + 1], last.arg, trace[k].cursor,
                        trace[k].cap) = {0, 1}

---------------------------------------------------------------------------
(* The children of a node: static, param and wildcard destinations *)
ChildrenOf(E, k) ==
  LET c == dfsChildren(E, NodeAt(E, k)) IN {c[i] : i \in DOMAIN c}

(* The depth of every node reachable from the root, level by level *)
RECURSIVE depthFrom(_, _, _, _)
depthFrom(E, frontier, d, acc) ==
  IF frontier = {} \/ d > NodeCount(E) THEN acc
  ELSE depthFrom(E, UNION {ChildrenOf(E, k) : k \in frontier} \ DOMAIN acc, d + 1,
                 acc @@ [k \in frontier |-> d])

DepthMap == depthFrom(Engine, {1}, 0, <<>>)

(* The words of the program at ip *)
ProgramLength(ip) == Len(ProgramWords(Engine, ip))

(* C9. Search terminates. Every search returns; from one iteration of its  *)
(* main loop to the next the cursor advances or the node is strictly       *)
(* deeper; at most 4 param programs are executed at a node; every program  *)
(* execution ends within program length + remaining input length steps     *)
(* (instructions dispatched plus bytes scanned).                           *)
C9_SearchTerminates ==
  Searched =>
    /\ last.returned
    /\ \A k \in 1..(Len(trace) - 1) :
         /\ trace[k].node \in DOMAIN DepthMap
         /\ trace[k + 1].node \in DOMAIN DepthMap
         /\ \/ trace[k + 1].cursor > trace[k].cursor
            \/ DepthMap[trace[k + 1].node] > DepthMap[trace[k].node]
    /\ \A k \in 1..Len(trace) :
         /\ Len(trace[k].execs) <= MAX_PARAM_EDGES_PER_NODE
         /\ \A j \in 1..Len(trace[k].execs) :
              LET e == trace[k].execs[j]
              IN e.disp + (e.to - e.from)
                   <= ProgramLength(e.instrStart) + (Len(last.arg) - e.from)

(* A search took a param edge with an empty capture: the cursor stood      *)
(* still and the node got deeper                                           *)
C9_Witness ==
  /\ Searched /\ last.returned
  /\ \E k \in 1..(Len(trace) - 1) :
       /\ trace[k].edge = "param"
       /\ trace[k + 1].cursor = trace[k].cursor
       /\ DepthMap[trace[k + 1].node] > DepthMap[trace[k].node]

---------------------------------------------------------------------------
(* C10. Idempotent delete. On an unfrozen engine with its intern map, the  *)
(* delete of a template that is not live (never inserted, or deleted       *)
(* already) returns without error and leaves the engine as it was: nodes,  *)
(* flags, values and intern map, hence every search, isPrefix and          *)
(* prefixSearch result.                                                    *)
C10_IdempotentDelete ==
  [][(last'.op = "delete" /\ ~frozen /\ HasInternMap(Engine)
        /\ ~Interned(Engine, last'.arg)) =>
       /\ last'.err = ""
       /\ Engine' = Engine
       /\ \A p \in Paths :
            /\ SearchView(Engine', p) = SearchView(Engine, p)
            /\ isPrefix(Engine', p) = isPrefix(Engine, p)
            /\ prefixSearch(Engine', p) = prefixSearch(Engine, p)]_vars

(* A template that had been inserted and deleted was deleted once more *)
C10_Witness ==
  /\ last.op = "delete" /\ last.err = "" /\ ~last.ret
  /\ ~frozen /\ HasInternMap(Engine)
  /\ \E k \in 2..Len(values) : values[k][1] = last.arg

---------------------------------------------------------------------------
(* C11. ASCII contract. With assumeAscii = false, searchInto returns false *)
(* with out.found = false for every path that holds a code unit >= 128 at  *)
(* any position, whatever templates are installed, wildcard templates      *)
(* whose prefix the path starts with included.                             *)
C11_AsciiContract ==
  (Searched /\ ~assumeAscii /\ \E k \in 1..Len(last.arg) : last.arg[k] >= 128) =>
    /\ last.returned
    /\ ~last.ret
    /\ ~out.found

(* With /* live and assumeAscii = false, a path under the wildcard whose   *)
(* second code unit is not ASCII was searched                              *)
C11_Witness ==
  /\ Searched /\ ~assumeAscii
  /\ Live(TWild)
  /\ last.arg = PNonAscii

---------------------------------------------------------------------------
(* The start offsets of the param programs installed at the nodes *)
InstalledPrograms ==
  {getParamInstr(nodes[k], j) : k \in 2..Len(nodes), j \in 0..3} \ {0}

(* A caller's buffer of n words: new Uint32Array(n) *)
PoolOfLength(n) == [k \in 1..n |-> 0]

(* What the caller of _execInstr can see: the returned boolean, the cursor *)
(* and capture count it leaves when it returns true, and the buffer.       *)
ExecView(r) == <<r.ok, IF r.ok THEN <<r.cursor, r.cap>> ELSE <<>>, r.pool>>

(* C12. Fast paths refine the generic interpreter. For every installed     *)
(* program of shape CAPTURE_UNTIL(D); END or CAPTURE_UNTIL('.');           *)
(* MATCH_LITERAL('.'); CAPTURE_UNTIL('/'); END, every path, cursor,        *)
(* capture count and buffer length, _execInstr returns the same boolean,   *)
(* leaves the same cursor and capture count and writes the same pairs as   *)
(* the generic loop run on the same program from its first word.           *)
C12_FastPathsRefineGeneric ==
  \A ip \in InstalledPrograms :
    (IsSingleCapture(Engine, ip) \/ IsDotPair(Engine, ip)) =>
      \A path \in Paths, cap \in 0..PoolPairs, n \in 0..(2 * PoolPairs) :
        \A cursor \in 0..Len(path) :
          ExecView(execInstr(Engine, ip, path, cursor, PoolOfLength(n), cap))
            = ExecView(execGeneric(Engine, ip, path, cursor, PoolOfLength(n), cap, 0))

---------------------------------------------------------------------------
(* The template t is the only live one *)
OnlyLive(t) == Live(t) /\ \A u \in Templates \ {t} : ~Live(u)

(* C13 as claimed. Wildcard terminals match only non-empty tails: with /*  *)
(* the only live template, the search of / (the path that ends at the      *)
(* delimiter before *, an empty tail) returns found = false, as does the   *)
(* search of that path without its final delimiter, the empty path.        *)
C13_WildcardNonEmptyTail ==
  (Searched /\ OnlyLive(TWild) /\ last.arg \in {PRoot, PEmpty}) =>
    (~last.ret /\ ~out.found)

(* C13 amended. With /* live the search of / succeeds through the          *)
(* wildcard edge with an empty tail: it returns the payload of /* with     *)
(* wildcardStart = wildcardEnd = 1, the length of the path. The search of  *)
(* that path without its final delimiter, the empty path, returns found =  *)
(* false.                                                                  *)
C13_WildcardEmptyTail ==
  (Searched /\ Live(TWild)) =>
    /\ last.arg = PRoot =>
         /\ last.ret /\ out.found
         /\ out.value[1][1] = TWild
         /\ out.nodeIndex = Some(TerminalOf(TWild))
         /\ out.wildcardStart = Some(Len(PRoot))
         /\ out.wildcardEnd = Some(Len(PRoot))
    /\ last.arg = PEmpty => (~last.ret /\ ~out.found)

(* With /* the only live template, / was searched and found *)
C13_Witness ==
  /\ Searched /\ OnlyLive(TWild)
  /\ last.arg = PRoot
  /\ out.found

---------------------------------------------------------------------------
(* The last iteration of the last search *)
LastStep == trace[Len(trace)]

(* C14. Wildcard result fields. When a search succeeds through a wildcard  *)
(* edge, out.nodeIndex is the wildcard child, out.wildcardStart is the     *)
(* cursor at which the edge was taken, the index just after the delimiter  *)
(* that precedes the star (the path up to it is the template without its   *)
(* star), and out.wildcardEnd is the length of the path; when a search     *)
(* succeeds without a wildcard edge both fields are unset.                 *)
C14_WildcardFields ==
  (Searched /\ out.found) =>
    IF LastStep.edge = "wildcard"
      THEN /\ out.nodeIndex = Some(NodeAt(Engine, LastStep.node).wildcardChild)
           /\ out.wildcardStart = Some(LastStep.cursor)
           /\ out.wildcardEnd = Some(Len(last.arg))
           /\ LastStep.cursor >= 1
           /\ CharAt(last.arg, LastStep.cursor - 1) = delim
           /\ out.value[1][1] = TWild =>
                Slice(last.arg, 0, out.wildcardStart[1]) \o <<ASCII_STAR>> = TWild
      ELSE /\ out.wildcardStart = Undefined
           /\ out.wildcardEnd = Undefined

(* /a/p was found through the wildcard edge of /*: the range is [1, 4) *)
C14_Witness ==
  /\ Searched /\ out.found
  /\ last.arg = PAP
  /\ LastStep.edge = "wildcard"
  /\ out.wildcardStart = Some(1) /\ out.wildcardEnd = Some(4)

---------------------------------------------------------------------------
(* The walk of insert over t on engine E ends at a node of E that is       *)
(* TERMINAL                                                                *)
WalkEndsAtTerminal(E, t) ==
  LET w == insertWalk(E, t, 0, 1, {}, <<>>, 0)
  IN /\ w.err = ""
     /\ w.nodeIndex < NodeCount(E)
     /\ HasFlag(NodeAt(E, w.nodeIndex).flags, TERMINAL)

(* The terminal nodes of E *)
Terminals(E) ==
  {k \in 1..(NodeCount(E) - 1) : HasFlag(NodeAt(E, k).flags, TERMINAL)}

(* C15. Insert never overwrites a terminal. An insert of a template that   *)
(* is in the intern map, or whose walk ends at a node that is TERMINAL     *)
(* already (/{y} after /{x}), fails, and every terminal keeps its value    *)
(* index, value and parameter keys, so that every path that was found      *)
(* before is found as before: same value, node, captures and key names.    *)
C15_InsertNeverOverwrites ==
  [][(last'.op = "insert"
        /\ (Live(last'.arg) \/ WalkEndsAtTerminal(Engine, last'.arg))) =>
       /\ last'.err # "" /\ ~last'.returned
       /\ \A k \in Terminals(Engine) :
            /\ k \in Terminals(Engine')
            /\ NodeAt(Engine', k).valueIndex = NodeAt(Engine, k).valueIndex
            /\ Engine'.values[NodeAt(Engine', k).valueIndex + 1]
                 = Engine.values[NodeAt(Engine, k).valueIndex + 1]
            /\ getParamKeysForNode(Engine', k) = getParamKeysForNode(Engine, k)
       /\ \A p \in Paths :
            SearchView(Engine, p)[1] => SearchView(Engine', p) = SearchView(Engine, p)]_vars

(* /{y} was inserted while /{x} was live, and the insert threw at the      *)
(* terminal of /{x}                                                        *)
C15_Witness ==
  /\ last.op = "insert" /\ last.arg = TParamY
  /\ last.err = "TerminalExists"
  /\ Live(TParam) /\ ~Live(TParamY)
  /\ SearchView(Engine, PA)[2].value[1][1] = TParam

---------------------------------------------------------------------------
(* The node the first segment of a template starts at: the root's child    *)
(* for the delimiter (0 when no template was inserted yet)                 *)
SegmentNode(E) == TransAt(E, NodeAt(E, 1).transBase + E.delim)

(* The program the first segment of template t compiles to *)
SegmentProgram(E, t) ==
  LET c == compileParamEdge(E, t, 1, E.delim, {}, <<>>, 0)
  IN ProgramWords(c.E, c.instrStart)

(* The programs and destinations of the param slots of node k *)
SlotsOf(E, k) ==
  [j \in 0..(SlotCount(NodeAt(E, k)) - 1) |->
     <<ProgramWords(E, getParamInstr(NodeAt(E, k), j)), getParamChild(NodeAt(E, k), j)>>]

(* The segment of t needs a slot of its own at a node that holds 4: its    *)
(* program is none of the programs of the node's slots                     *)
NeedsFifthSlot(E, t) ==
  /\ SegmentNode(E) # 0
  /\ SlotCount(NodeAt(E, SegmentNode(E))) = MAX_PARAM_EDGES_PER_NODE
  /\ \A j \in 0..(MAX_PARAM_EDGES_PER_NODE - 1) :
       SlotsOf(E, SegmentNode(E))[j][1] # SegmentProgram(E, t)

(* C16. Variant cap. A node never holds more than 4 param slots; an insert *)
(* whose parameter segment would need a 5th distinct program at a node     *)
(* fails with TooManyParamVariants and leaves the 4 slots of that node,    *)
(* programs and destinations, unchanged.                                   *)
C16_VariantCap ==
  [][last'.op = "insert" =>
       /\ \A k \in 1..(NodeCount(Engine') - 1) :
            NodeAt(Engine', k).paramEdgeCount <= MAX_PARAM_EDGES_PER_NODE
       /\ (~Live(last'.arg) /\ NeedsFifthSlot(Engine, last'.arg)) =>
            /\ last'.err = "TooManyParamVariants"
            /\ SlotsOf(Engine', SegmentNode(Engine)) = SlotsOf(Engine, SegmentNode(Engine))]_vars

---------------------------------------------------------------------------
(* C17. Concurrent readers share no mutable engine state: two searches     *)
(* that interleave on the same frozen engine, each with its own capture    *)
(* buffer and result struct, return what they return when run one after    *)
(* the other: the returned boolean, the result struct and the captures of  *)
(* a search that returned are those of the same search run alone.          *)
C17_ReadersIndependent ==
  \A r \in Readers :
    readers[r].pc = "done" =>
      <<readers[r].ret, readers[r].out,
        IF readers[r].out.found
          THEN SubSeq(readers[r].pool, 1, 2 * readers[r].out.paramCount[1])
          ELSE <<>>>> = SearchView(Engine, readers[r].path)

---------------------------------------------------------------------------
(* What the caller sees of the result r of a searchInto call: the returned *)
(* boolean, the result struct and the capture pairs the result counts      *)
ViewOf(r) ==
  <<r.ret, r.out,
    IF r.out.found THEN SubSeq(r.pool, 1, 2 * r.out.paramCount[1]) ELSE <<>>>>

(* A caller's buffer that earlier use has left filled *)
UsedPool == [k \in 1..(2 * PoolPairs) |-> k]

(* C18. Search is deterministic and read-only on the trie. searchInto      *)
(* changes no node, flag, transition, value, instruction word, literal,    *)
(* key or intern-map entry, and a second search of the same path with no   *)
(* mutation in between (with the same buffer and result struct, with new   *)
(* ones, or with a buffer used before) returns the same found, value,      *)
(* nodeIndex, paramCount, wildcard fields and the same first paramCount    *)
(* capture pairs.                                                          *)
C18_SearchReadOnly ==
  [][last'.op = "search" =>
       /\ nodes' = nodes
       /\ transitionsPool' = transitionsPool
       /\ transitionsCapNodes' = transitionsCapNodes
       /\ values' = values
       /\ instr' = instr
       /\ literalPool' = literalPool
       /\ paramKeyPool' = paramKeyPool
       /\ routeTemplateToNode' = routeTemplateToNode
       /\ LET first == ViewOf([ret |-> last'.ret, out |-> out', pool |-> memoryPool'])
          IN /\ ViewOf(searchInto(Engine', last'.arg, memoryPool', out')) = first
             /\ ViewOf(searchInto(Engine', last'.arg, FreshPool, EmptyOut)) = first
             /\ ViewOf(searchInto(Engine', last'.arg, UsedPool, EmptyOut)) = first]_vars

---------------------------------------------------------------------------
(* C19. Result struct reset. searchInto sets found = false and clears      *)
(* value, nodeIndex, paramCount, wildcardStart and wildcardEnd before it   *)
(* walks, so after a failed search that reuses the out struct of an        *)
(* earlier successful search no field of the earlier match remains; and    *)
(* the boolean it returns equals out.found.                                *)
C19_ResultReset ==
  [][last'.op = "search" =>
       /\ last'.ret = out'.found
       /\ ~out'.found =>
            /\ out'.value = Undefined
            /\ out'.nodeIndex = Undefined
            /\ out'.paramCount = Undefined
            /\ out'.wildcardStart = Undefined
            /\ out'.wildcardEnd = Undefined]_vars

(* /{x} was inserted, /ab was searched and found (its capture [1, 3) is    *)
(* still in the buffer), then the empty path was searched with the same    *)
(* out and not found                                                       *)
C19_Witness ==
  /\ Searched /\ ~out.found /\ ~last.ret
  /\ last.arg = PEmpty
  /\ nops = 3
  /\ values = <<Undefined, <<TParam, 0>>>>
  /\ memoryPool[1] = 1 /\ memoryPool[2] = 3
  /\ out = EmptyOut

---------------------------------------------------------------------------
(* C20. Search never throws. In every reachable engine state, for every    *)
(* path (ASCII or not, the empty path included) and every capture buffer   *)
(* length from 0 on, searchInto returns a boolean, every node it visits is *)
(* a node of the arena, the buffer keeps its length, and a program that    *)
(* needs more pairs than the buffer holds fails its slot: the pairs        *)
(* written up to any iteration fit in the buffer.                          *)
C20_SearchNeverThrows ==
  \A path \in Paths, n \in 0..(2 * PoolPairs) :
    LET r == searchInto(Engine, path, PoolOfLength(n), EmptyOut)
    IN /\ r.returned
       /\ r.ret \in BOOLEAN
       /\ r.ret = r.out.found
       /\ DOMAIN r.pool = 1..n
       /\ \A k \in 1..Len(r.trace) :
            /\ 2 * r.trace[k].cap <= n
            /\ r.trace[k].node \in 1..(NodeCount(Engine) - 1)

(* /{n}.{e} is live and /a.b, found with a buffer of 6 words, is not found *)
(* with a buffer of 2 words, one pair short of the two the program needs   *)
C20_Witness ==
  /\ Live(TDot)
  /\ searchInto(Engine, PADotB, FreshPool, EmptyOut).ret
  /\ ~searchInto(Engine, PADotB, PoolOfLength(2), EmptyOut).ret
  /\ ~searchInto(Engine, PNonAscii, PoolOfLength(0), EmptyOut).ret

---------------------------------------------------------------------------
(* C21. Prefix search. prefixSearch(prefix) returns no payload twice;      *)
(* while the intern map is kept, the payloads it returns are exactly those *)
(* of the live templates whose terminal node lies under the node the       *)
(* static walk of prefix reaches, each the payload its template was        *)
(* inserted with, so a deleted template contributes nothing; every payload *)
(* returned sits at a TERMINAL node under that node; and a prefix that     *)
(* cannot be walked gives the empty list. The nodes under a node are      *)
(* those depthFrom reaches from it over static, param and wildcard edges.  *)
C21_PrefixSearch ==
  \A prefix \in Paths :
    LET got == prefixSearch(Engine, prefix)
        start == staticWalk(Engine, prefix, 1, 0)
        under == IF start = 0 THEN {} ELSE DOMAIN depthFrom(Engine, {start}, 0, <<>>)
    IN /\ \A i, j \in DOMAIN got : got[i] = got[j] => i = j
       /\ start = 0 => got = <<>>
       /\ {got[i] : i \in DOMAIN got} \subseteq
            {values[nodes[k + 1].valueIndex + 1] : k \in under \cap Terminals(Engine)}
       /\ HasInternMap(Engine) =>
            /\ {got[i] : i \in DOMAIN got} =
                 {values[nodes[TerminalOf(t) + 1].valueIndex + 1] :
                    t \in {u \in Templates : Live(u) /\ TerminalOf(u) \in under}}
            /\ \A t \in Templates :
                 Live(t) /\ TerminalOf(t) \in under =>
                   \E i \in DOMAIN got : got[i][1] = t

(* A live template and a deleted one under the root: the prefix "/" gives  *)
(* the one payload although the node of the deleted template remains       *)
C21_Witness ==
  /\ last.op = "delete" /\ last.ret
  /\ Len(prefixSearch(Engine, PRoot)) = 1
  /\ Cardinality(DOMAIN depthFrom(Engine, {staticWalk(Engine, PRoot, 1, 0)}, 0, <<>>)) >= 3

---------------------------------------------------------------------------
(* C22. isPrefix. isPrefix(p) holds exactly when p is one of the strings   *)
(* the static transitions spell from the root (collected here level by     *)
(* level over the trie, param and wildcard edges left out); the empty      *)
(* string is a prefix, a string with a code unit above 127 is not, and no  *)
(* delete changes the answer for any string.                               *)
C22_IsPrefix ==
  LET RECURSIVE spelled(_, _)
      spelled(frontier, acc) ==
        IF frontier = {} THEN acc
        ELSE spelled({<<Append(f[1], cc), TransAt(Engine, nodes[f[2] + 1].transBase + cc)>> :
                        <<f, cc>> \in {x \in frontier \X (0..(TRANSITIONS_WIDTH - 1)) :
                                         StaticExists(nodes[x[1][2] + 1], x[2])}},
                     acc \cup {f[1] : f \in frontier})
      words == spelled({<<PEmpty, 1>>}, {})
  IN /\ isPrefix(Engine, PEmpty)
     /\ \A p \in Paths :
          /\ isPrefix(Engine, p) <=> p \in words
          /\ (\E i \in DOMAIN p : p[i] >= TRANSITIONS_WIDTH) => ~isPrefix(Engine, p)
          /\ \A t \in Templates : isPrefix(delete(Engine, t).E, p) = isPrefix(Engine, p)

(* /{x} is live and /b was deleted: "/b" is still a prefix, "/a", which    *)
(* the search finds through the param edge, is not                         *)
C22_Witness ==
  /\ last.op = "delete" /\ last.ret /\ last.arg = TStatic
  /\ Live(TParam)
  /\ isPrefix(Engine, PB)
  /\ ~isPrefix(Engine, PA)
  /\ SearchView(Engine, PA)[1]

---------------------------------------------------------------------------
(* C23. Batch preflight. A call of insertBatch, insertBatchParallel or     *)
(* insertBatchFromObject whose batch names a template twice, or names a    *)
(* template the intern map holds, throws and leaves the engine as it was:  *)
(* no entry of the batch is inserted, not even those before the duplicate. *)
C23_BatchPreflight ==
  [][(/\ last'.op \in {"insertBatch", "insertBatchParallel", "insertBatchFromObject"}
      /\ nops' = nops + 1
      /\ \/ \E i, j \in DOMAIN last'.arg : i # j /\ last'.arg[i] = last'.arg[j]
         \/ \E i \in DOMAIN last'.arg : Live(last'.arg[i]))
     => /\ last'.err # ""
        /\ ~last'.returned
        /\ Engine' = Engine]_vars

(* A batch of a template that could be inserted followed by one that is    *)
(* live was refused                                                        *)
C23_Witness ==
  /\ last.op = "insertBatch"
  /\ last.err = "AlreadyInserted"
  /\ Len(last.arg) = 2
  /\ ~Live(last.arg[1])
  /\ Live(last.arg[2])
  /\ insert(Engine, last.arg[1], Payload(last.arg[1])).err = ""

---------------------------------------------------------------------------
(* The errors the taxonomy files under InvalidTemplate *)
InvalidTemplate ==
  {"MustStartWithDelimiter", "WildcardNotTrailing", "UnclosedBrace", "EmptyParamName",
   "InvalidParamChar", "EscapeInParamName", "DuplicateParamName", "AdjacentParams",
   "StrayRBrace", "TrailingEscape", "NonAscii"}

(* C24 as stated. Every insert of a malformed template fails with          *)
(* InvalidTemplate and marks no node TERMINAL.                             *)
C24_MalformedInvalidTemplate ==
  [][(last'.op = "insert" /\ nops' = nops + 1 /\ last'.arg \in MalformedTemplates)
     => /\ last'.err \in InvalidTemplate
        /\ Terminals(Engine') = Terminals(Engine)]_vars

(* C24. Malformed templates are rejected. Every insert of a malformed      *)
(* template throws, marks no node TERMINAL and adds no value; the error is *)
(* InvalidTemplate unless the engine is frozen, where it is Frozen, or a   *)
(* well-formed parameter segment in front of the malformed byte would be   *)
(* the fifth variant of a node, where it is TooManyParamVariants.          *)
C24_MalformedRejected ==
  [][(last'.op = "insert" /\ nops' = nops + 1 /\ last'.arg \in MalformedTemplates)
     => /\ ~last'.returned
        /\ Terminals(Engine') = Terminals(Engine)
        /\ values' = values
        /\ routeTemplateToNode' = routeTemplateToNode
        /\ IF frozen THEN last'.err = "Frozen"
           ELSE \/ last'.err \in InvalidTemplate
                \/ /\ last'.err = "TooManyParamVariants"
                   /\ \E k \in 1..(NodeCount(Engine) - 1) :
                        SlotCount(NodeAt(Engine, k)) = MAX_PARAM_EDGES_PER_NODE]_vars

(* A template with a repeated parameter name was refused on an engine that *)
(* is not frozen and holds a terminal; the refused insert left nodes       *)
(* behind, none of them TERMINAL                                           *)
C24_Witness ==
  /\ last.op = "insert"
  /\ last.arg = Str(<<"/", "{", "a", "}", "/", "{", "a", "}">>)
  /\ last.err = "DuplicateParamName"
  /\ ~frozen
  /\ Terminals(Engine) # {}
  /\ NodeCount(Engine) > 2 + Cardinality(Terminals(Engine))

---------------------------------------------------------------------------
(* C25. Delete without the intern map. On an engine that is not frozen and *)
(* whose intern map finalize({dropInternMap: true}) has dropped, every     *)
(* call of delete throws Unavailable and leaves every engine field as it   *)
(* was, whether its template is live, was deleted before the drop or was   *)
(* never inserted.                                                         *)
C25_DeleteUnavailable ==
  [][(last'.op = "delete" /\ nops' = nops + 1 /\ ~HasInternMap(Engine) /\ ~frozen)
     => /\ last'.err = "Unavailable"
        /\ ~last'.returned
        /\ Engine' = Engine
        /\ Terminals(Engine') = Terminals(Engine)]_vars

(* The delete of a template that is still routed was refused *)
C25_Witness ==
  /\ last.op = "delete"
  /\ last.err = "Unavailable"
  /\ ~frozen
  /\ WalkEndsAtTerminal(Engine, last.arg)

---------------------------------------------------------------------------
(* C26. Delimiter validation. The constructor returns an engine exactly    *)
(* when the delimiter option is absent or is one of the one-character      *)
(* strings "/", ":", "|", and the engine then splits on that character     *)
(* ("/" when the option is absent); for every other option it throws.      *)
C26_DelimiterValidated ==
  last.op = "new" =>
    /\ last.returned <=>
         last.arg \in {Undefined, Some(Str(<<"/">>)), Some(Str(<<":">>)), Some(Str(<<"|">>))}
    /\ last.returned =>
         delim = (IF last.arg = Undefined THEN ASCII_SLASH ELSE last.arg[1][1])

---------------------------------------------------------------------------
(* C30. LRU eviction. The cache never holds more entries than its          *)
(* capacity. A set of a new key made at full capacity removes exactly one  *)
(* entry, the key whose last hit or set lies furthest back, and adds the   *)
(* new key; any other set, and every get, removes nothing; a get that hits *)
(* and every set leave their key at the head of the list, a get that       *)
(* misses returns null and changes nothing.                                *)
C30_LruEviction ==
  [][LET keys == DOMAIN cache.cache
         keysAfter == DOMAIN cache'.cache
         key == last'.arg
         oldest == CHOOSE k \in keys : \A j \in keys : history[k] <= history[j]
     IN /\ size(cache') <= cache'.capacity
        /\ (last'.op = "cache.set" /\ nops' = nops + 1) =>
             /\ IF key \notin keys /\ size(cache) = cache.capacity
                  THEN keysAfter = (keys \ {oldest}) \cup {key}
                  ELSE keysAfter = keys \cup {key}
             /\ cache'.heap[cache'.head[1]].key = key
             /\ cache'.heap[cache'.cache[key]].value = <<key, nops>>
             /\ \A k \in keysAfter \ {key} :
                  cache'.heap[cache'.cache[k]].value = cache.heap[cache.cache[k]].value
        /\ (last'.op = "cache.get" /\ nops' = nops + 1) =>
             /\ keysAfter = keys
             /\ IF key \in keys
                  THEN /\ cache'.heap[cache'.head[1]].key = key
                       /\ last'.ret = cache.heap[cache.cache[key]].value
                  ELSE last'.ret = Undefined /\ cache' = cache]_vars

(* A full cache of two entries whose older entry was refreshed by a get    *)
(* took a third key: the entry that was not refreshed is the one evicted   *)
C30_Witness ==
  /\ last.op = "cache.set"
  /\ cache.capacity = 2
  /\ size(cache) = 2
  /\ \E k \in CacheKeys \ DOMAIN cache.cache :
       /\ k \in DOMAIN history
       /\ \E j \in DOMAIN cache.cache \ {last.arg} :
            /\ history[k] > cache.heap[cache.cache[j]].value[2] + 1
            /\ history[j] > history[k]


C28_ExecutionLimit ==
  last.op = "match"
  => /\ last.returned
     /\ last.ret.pops <= machine.config.executionLimit
     /\ LET u == machineMatch([machine EXCEPT
                                 !.config.executionLimit = DefaultExecutionLimit],
                              last.arg)
        IN /\ last.ret.pops = Min({machine.config.executionLimit, u.pops})
           /\ Len(last.ret.results) <= Len(u.results)
           /\ last.ret.results = SubSeq(u.results, 1, Len(last.ret.results))
           /\ u.pops <= machine.config.executionLimit
              => last.ret.results = u.results

(* C29: the serialization round trip. In every state of a machine, the     *)
(* machine fromJSON(toJSON(machine)) has the same config as the machine    *)
(* and, for every input, match on it returns or fails to return as on the  *)
(* machine, with the same results: the same data and params in the same    *)
(* order.                                                                  *)
C29_RoundTrip ==
  machine # Undefined
  => /\ fromJSON(toJSON(machine)).config = machine.config
     /\ \A input \in Inputs :
          /\ machineMatch(fromJSON(toJSON(machine)), input).returned
             = machineMatch(machine, input).returned
          /\ machineMatch(fromJSON(toJSON(machine)), input).results
             = machineMatch(machine, input).results

(* a machine that was rebuilt from its JSON, holds a {param} and a **      *)
(* pattern, and reports several matches for an input, one with a param     *)
C29_Witness ==
  /\ last.op = "fromJSON"
  /\ \E k \in DOMAIN machine.nodes : machine.nodes[k].paramChild # 0
  /\ \E k \in DOMAIN machine.nodes : machine.nodes[k].wildcardRecursiveChild # 0
  /\ \E input \in Inputs :
       \E r \in DOMAIN machineMatch(machine, input).results :
         DOMAIN machineMatch(machine, input).results[r].params # {}
  /\ \E input \in Inputs : Len(machineMatch(machine, input).results) > 1


---------------------------------------------------------------------------
(* C31: no cross-slot backtracking. In the iterations of a search, after   *)
(* the iteration in which the program of a param slot matched at a node,   *)
(* the next iteration is at that slot's destination and no later iteration *)
(* is at the node again; a result found through a wildcard edge is found   *)
(* in the last iteration, at the node and cursor of that iteration; and    *)
(* when the last iteration finds nothing the search returns found = false, *)
(* whatever the wildcard edges or later slots of the nodes left behind.    *)
C31_NoBacktracking ==
  (Searched /\ last.returned) =>
    /\ \A k \in 1..Len(trace) :
         trace[k].edge = "param" =>
           /\ k < Len(trace)
           /\ trace[k + 1].node = getParamChild(nodes[trace[k].node + 1], trace[k].slot)
           /\ \A j \in (k + 1)..Len(trace) : trace[j].node # trace[k].node
    /\ \A k \in 1..(Len(trace) - 1) : trace[k].edge \in {"static", "param"}
    /\ (trace # <<>> /\ out.wildcardStart # Undefined) =>
         /\ trace[Len(trace)].edge = "wildcard"
         /\ out.wildcardStart = Some(trace[Len(trace)].cursor)
         /\ out.nodeIndex = Some(nodes[trace[Len(trace)].node + 1].wildcardChild)
    /\ (trace # <<>> /\ trace[Len(trace)].edge = "none") => ~out.found /\ ~last.ret

(* a search descended through a param slot of a node whose wildcard edge   *)
(* leads to a live terminal, could not match the rest below the slot's     *)
(* destination and returned found = false                                  *)
C31_Witness ==
  /\ Searched /\ last.returned /\ ~out.found
  /\ \E k \in 1..Len(trace) :
       /\ trace[k].edge = "param"
       /\ WildcardReady(Engine, nodes[trace[k].node + 1])


---------------------------------------------------------------------------
(* C32: every live template is reachable. In every state of an engine that *)
(* has its intern map, for each live template there is a path (among the   *)
(* paths of the model and instantiations of the templates) whose search    *)
(* is found at the template's terminal with the value the template was     *)
(* inserted with.                                                          *)
C32_LiveReachable ==
  LET Instances ==
        Paths \cup {Str(<<"/", "1">>), Str(<<"/", "1", ".", "2">>),
                    Str(<<"/", "1", ".", "2", "/", "x">>),
                    Str(<<"/", "1", "/", "p">>),
                    Str(<<"/", "1", "x", "2", "z", "/", "q">>),
                    Str(<<"/", "1", "x", "2", "y", "/", "1", "z", "z">>),
                    Str(<<"/", "1", "x", "2", "y", "y", "1", "/", "q">>)}
  IN HasInternMap(Engine) =>
       \A t \in Templates :
         Live(t) =>
           \E p \in Instances :
             /\ searchInto(Engine, p, memoryPool, out).ret
             /\ searchInto(Engine, p, memoryPool, out).out.nodeIndex
                  = Some(TerminalOf(t))
             /\ searchInto(Engine, p, memoryPool, out).out.value[1][1] = t


---------------------------------------------------------------------------
(* C33 as claimed: while the wildcard template /* is live, the search of   *)
(* every ASCII path that starts with the delimiter and has at least one    *)
(* more byte is found.                                                     *)
C33_WildcardAcceptsEveryRest ==
  (/\ Searched /\ Live(TWild)
   /\ Len(last.arg) >= 2 /\ last.arg[1] = ASCII_SLASH /\ ~HasNonAscii(last.arg))
  => last.ret /\ out.found

(* C33, amended: while the wildcard template /* is live, the search of an  *)
(* ASCII path that starts with the delimiter and has at least one more     *)
(* byte reaches the node W below the delimiter with the cursor on the next *)
(* byte. If W has no static transition for that byte and no param slot of  *)
(* W matches there, the path is found with the wildcard template's         *)
(* terminal and value and the range from that byte to the end of the path, *)
(* whatever other templates are installed; otherwise the search descends   *)
(* below W and its result, which may be found = false, is not the          *)
(* wildcard's.                                                             *)
C33_WildcardUnlessDescent ==
  (/\ Searched /\ Live(TWild)
   /\ Len(last.arg) >= 2 /\ last.arg[1] = ASCII_SLASH /\ ~HasNonAscii(last.arg))
  => /\ Len(trace) >= 2
     /\ trace[2].cursor = 1
     /\ nodes[trace[2].node + 1].wildcardChild = TerminalOf(TWild)
     /\ IF /\ ~StaticExists(nodes[trace[2].node + 1], CharAt(last.arg, 1))
           /\ MatchingSlots(nodes[trace[2].node + 1], last.arg, 1, 0) = {}
          THEN /\ last.ret /\ out.found
               /\ out.nodeIndex = Some(TerminalOf(TWild))
               /\ out.value[1][1] = TWild
               /\ out.wildcardStart = Some(1)
               /\ out.wildcardEnd = Some(Len(last.arg))
          ELSE /\ Len(trace) >= 3
               /\ out.nodeIndex # Some(TerminalOf(TWild))
               /\ out.wildcardStart = Undefined

(* the wildcard took the rest of a path while a static and a param         *)
(* template under the same prefix were live                                *)
C33_Witness ==
  /\ Searched /\ Live(TWild) /\ last.ret
  /\ out.nodeIndex = Some(TerminalOf(TWild))
  /\ Len(last.arg) >= 2
  /\ \E t \in Templates \ {TWild} : Live(t)


---------------------------------------------------------------------------
(* C34: a parameter stays inside one segment. In every state, for every    *)
(* path of the model and for the path /a/b.b: when the search of the path  *)
(* is found, none of the ranges it captured contains the delimiter.        *)
C34_ParamInsideSegment ==
  \A p \in Paths \cup {Str(<<"/", "a", "/", "b", ".", "b">>)} :
    searchInto(Engine, p, memoryPool, out).ret =>
      \A i \in 0..(searchInto(Engine, p, memoryPool, out).out.paramCount[1] - 1) :
        \A k \in (searchInto(Engine, p, memoryPool, out).pool[2 * i + 1] + 1)
                 ..searchInto(Engine, p, memoryPool, out).pool[2 * i + 2] :
          k \in DOMAIN p => p[k] # delim


---------------------------------------------------------------------------
(* C35: delete then re-insert works. In every state of an unfrozen engine  *)
(* with its intern map, for every live template t: after delete(t), the    *)
(* call insert(t, v2) returns without an error, and every path of the      *)
(* model whose search was found at t's terminal before the delete is found *)
(* again after the insert, with the value v2.                              *)
C35_DeleteThenReinsert ==
  (~frozen /\ HasInternMap(Engine)) =>
    \A t \in Templates :
      Live(t) =>
        /\ insert(delete(Engine, t).E, t, <<t, -1>>).err = ""
        /\ \A p \in Paths :
             (/\ searchInto(Engine, p, memoryPool, out).ret
              /\ searchInto(Engine, p, memoryPool, out).out.nodeIndex
                   = Some(TerminalOf(t)))
             => /\ searchInto(insert(delete(Engine, t).E, t, <<t, -1>>).E,
                              p, memoryPool, out).ret
                /\ searchInto(insert(delete(Engine, t).E, t, <<t, -1>>).E,
                              p, memoryPool, out).out.value = Some(<<t, -1>>)


---------------------------------------------------------------------------
(* C36: parameters are never empty. After every search that returned true  *)
(* each of the paramCount captured ranges in the caller's buffer is        *)
(* non-empty: caps[2i] < caps[2i+1].                                       *)
C36_ParamsNeverEmpty ==
  (Searched /\ last.returned /\ last.ret) =>
    \A i \in 0..(out.paramCount[1] - 1) :
      2 * i + 2 <= Len(memoryPool) => memoryPool[2 * i + 1] < memoryPool[2 * i + 2]

(* C36 as the code has it: a param edge is tried only while the cursor is  *)
(* before the end of the path, so a parameter is never matched against the *)
(* end of the path by the main loop; in the middle of a path a capture is  *)
(* empty when its stop byte is at the cursor: with /{u}/p live the path    *)
(* //p is found with the value of /{u}/p and the empty range [1, 1).       *)
C36_ParamsMayBeEmpty ==
  /\ (Searched /\ last.returned) =>
       \A k \in 1..Len(trace) :
         (trace[k].edge = "param" \/ trace[k].execs # <<>>) =>
           trace[k].cursor < Len(last.arg)
  /\ Live(TParamP) =>
       /\ searchInto(Engine, PEmptySeg, memoryPool, out).ret
       /\ searchInto(Engine, PEmptySeg, memoryPool, out).out.value[1][1] = TParamP
       /\ searchInto(Engine, PEmptySeg, memoryPool, out).out.paramCount = Some(1)
       /\ searchInto(Engine, PEmptySeg, memoryPool, out).pool[1] = 1
       /\ searchInto(Engine, PEmptySeg, memoryPool, out).pool[2] = 1

(* the search of //p returned true at the terminal of /{u}/p with the      *)
(* empty range [1, 1) in the buffer                                        *)
C36_Witness ==
  /\ Searched /\ last.returned /\ last.ret
  /\ last.arg = PEmptySeg
  /\ Live(TParamP) /\ out.nodeIndex = Some(TerminalOf(TParamP))
  /\ out.paramCount = Some(1)
  /\ memoryPool[1] = 1 /\ memoryPool[2] = 1


---------------------------------------------------------------------------
(* C37: tombstone delete is structure-preserving. In every step the number *)
(* of nodes does not decrease and every node keeps its index (its row of   *)
(* the transitions buffer); a delete(t) that returns changes nothing of    *)
(* the engine but the TERMINAL flag, valueIndex, paramCount and            *)
(* paramKeysIndex of the node the intern map had for t, and the entry of t *)
(* in the intern map: transitions, param slots, wildcard edges, the        *)
(* instruction stream, the pools, the values and all other nodes stay.     *)
C37_TombstoneDelete ==
  [][/\ Len(nodes') >= Len(nodes)
     /\ \A k \in 1..Len(nodes) : nodes'[k].transBase = nodes[k].transBase
     /\ (last'.op = "delete" /\ last'.returned /\ nops' # nops) =>
          /\ transitionsPool' = transitionsPool
          /\ transitionsCapNodes' = transitionsCapNodes
          /\ instr' = instr
          /\ literalPool' = literalPool
          /\ paramKeyPool' = paramKeyPool
          /\ values' = values
          /\ Len(nodes') = Len(nodes)
          /\ <<frozen', delim', assumeAscii'>> = <<frozen, delim, assumeAscii>>
          /\ \A k \in 1..Len(nodes) :
               IF Interned(Engine, last'.arg)
                    /\ k = routeTemplateToNode.map[last'.arg] + 1
                 THEN nodes'[k] =
                        [nodes[k] EXCEPT !.flags = ClearFlag(@, TERMINAL),
                                         !.valueIndex = 0, !.paramCount = 0,
                                         !.paramKeysIndex = 0]
                 ELSE nodes'[k] = nodes[k]
          /\ routeTemplateToNode'.dropped = routeTemplateToNode.dropped
          /\ routeTemplateToNode'.map =
               [u \in DOMAIN routeTemplateToNode.map \ {last'.arg}
                  |-> routeTemplateToNode.map[u]]
    ]_vars

(* /{x} was deleted while /{u}/p, whose route runs through the terminal of *)
(* /{x}, is live: the tombstoned node still leads to the terminal of       *)
(* /{u}/p                                                                  *)
C37_Witness ==
  /\ last.op = "delete" /\ last.returned /\ last.ret
  /\ last.arg = TParam
  /\ ~Live(TParam) /\ Live(TParamP)
  /\ searchInto(Engine, PAP, memoryPool, out).ret
  /\ searchInto(Engine, PAP, memoryPool, out).out.nodeIndex = Some(TerminalOf(TParamP))


---------------------------------------------------------------------------
(* C38: flags and edges agree. In every state, also after an insert that   *)
(* threw, every node has HAS_WILDCARD_EDGE iff its wildcardChild is not 0; *)
(* it has HAS_PARAM_EDGE iff its paramEdgeCount is in 1..4, the slots      *)
(* below the count hold a program start and a destination that are not 0   *)
(* and the slots from the count on hold 0; and it has TERMINAL iff its     *)
(* valueIndex is not 0.                                                    *)
C38_FlagsMatchEdges ==
  \A k \in 1..Len(nodes) :
    /\ HasFlag(nodes[k].flags, HAS_WILDCARD_EDGE) <=> nodes[k].wildcardChild # 0
    /\ HasFlag(nodes[k].flags, HAS_PARAM_EDGE) <=>
         nodes[k].paramEdgeCount \in 1..MAX_PARAM_EDGES_PER_NODE
    /\ nodes[k].paramEdgeCount \in 0..MAX_PARAM_EDGES_PER_NODE
    /\ \A s \in 0..(MAX_PARAM_EDGES_PER_NODE - 1) :
         IF s < nodes[k].paramEdgeCount
           THEN /\ getParamInstr(nodes[k], s) # 0
                /\ getParamChild(nodes[k], s) # 0
           ELSE /\ getParamInstr(nodes[k], s) = 0
                /\ getParamChild(nodes[k], s) = 0
    /\ HasFlag(nodes[k].flags, TERMINAL) <=> nodes[k].valueIndex # 0

(* an insert threw in an engine that has a node with a param variant and a *)
(* node with a wildcard edge                                               *)
C38_Witness ==
  /\ last.op = "insert" /\ last.err # ""
  /\ \E k \in 1..Len(nodes) :
       /\ HasFlag(nodes[k].flags, HAS_PARAM_EDGE)
       /\ nodes[k].paramEdgeCount >= 1
  /\ \E k \in 1..Len(nodes) :
       /\ HasFlag(nodes[k].flags, HAS_WILDCARD_EDGE)
       /\ nodes[k].wildcardChild # 0


---------------------------------------------------------------------------
(* C39: transitions buffer capacity. In every state, whatever hint the     *)
(* engine was constructed with, the buffer has room for the row of every   *)
(* node (capacity in nodes >= node count, every node's row                 *)
(* [index * 128, index * 128 + 128) below the buffer's length, nothing     *)
(* written outside it); and an insert, whether it grows the buffer or not, *)
(* keeps every transition there was, and leaves the engine, but for the    *)
(* capacity, and every search as the same insert leaves them in an engine  *)
(* with eight times the room, in which nothing grows.                      *)
C39_TransitionsCapacity ==
  /\ transitionsCapNodes >= Len(nodes)
  /\ \A k \in 1..Len(nodes) :
       /\ nodes[k].transBase = (k - 1) * TRANSITIONS_WIDTH
       /\ nodes[k].transBase + TRANSITIONS_WIDTH
            <= transitionsCapNodes * TRANSITIONS_WIDTH
  /\ \A s \in DOMAIN transitionsPool : s < transitionsCapNodes * TRANSITIONS_WIDTH
  /\ \A t \in GrowTemplates :
       /\ \A s \in DOMAIN transitionsPool :
            TransAt(insert(Engine, t, <<t, -1>>).E, s) = transitionsPool[s]
       /\ [insert(Engine, t, <<t, -1>>).E
             EXCEPT !.transitionsCapNodes = 8 * transitionsCapNodes]
            = insert([Engine EXCEPT !.transitionsCapNodes = 8 * @],
                     t, <<t, -1>>).E
       /\ \A p \in GrowPaths :
            searchInto(insert(Engine, t, <<t, -1>>).E, p, memoryPool, out).out
              = searchInto(insert([Engine EXCEPT !.transitionsCapNodes = 8 * @],
                                  t, <<t, -1>>).E, p, memoryPool, out).out

(* the buffer has grown since the constructor and a search of the long    *)
(* template that was inserted before the growth found it                   *)
C39_Witness ==
  /\ Searched /\ last.returned /\ last.ret
  /\ last.arg = TB7
  /\ Live(TB7) /\ Live(TA7)
  /\ out.nodeIndex = Some(TerminalOf(TB7))
  /\ transitionsCapNodes >= 2 * DefaultNodePoolSize


---------------------------------------------------------------------------
(* C40: add is monotone. For every state of a machine with the default     *)
(* executionLimit, every pattern whose add returns without an error and    *)
(* every input whose match returns before and after that add, every result *)
(* (data and params) of the match before the add is among the results of   *)
(* the match after it.                                                     *)
C40_AddMonotone ==
  (machine # Undefined /\ machine.config.executionLimit = DefaultExecutionLimit) =>
    \A pattern \in Patterns : \A x \in Inputs :
      (/\ add(machine, pattern, Payload(pattern)).returned
       /\ add(machine, pattern, Payload(pattern)).err = ""
       /\ machineMatch(machine, x).returned
       /\ machineMatch(add(machine, pattern, Payload(pattern)).M, x).returned)
      => \A k \in DOMAIN machineMatch(machine, x).results :
           \E j \in DOMAIN machineMatch(add(machine, pattern,
                                            Payload(pattern)).M, x).results :
             machineMatch(add(machine, pattern, Payload(pattern)).M, x).results[j]
               = machineMatch(machine, x).results[k]

=============================================================================
